---- MODULE Spec2Model ----
(***************************************************************************)
(* Model of the DHCPv4 client of vulcan (crates/lib-dhcp): the DHCP state  *)
(* machine (client/state/dhcp.rs) and the handlers of the run loop         *)
(* (client/mod.rs).  One action per handler; the handler bodies are        *)
(* operators that map the client before the call and the handler's inputs  *)
(* (what the socket delivers, whether a send or an `ip` command succeeds,  *)
(* the random numbers drawn) to the client after the call.                 *)
(***************************************************************************)
EXTENDS Integers, Sequences, FiniteSets, TLC

VARIABLES
    dhcp_state,     \* Client.dhcp_state
    client_state,   \* Client.client_state (ClientState)
    run_result,     \* "running" while Client::run loops, else what it returned
    socket,         \* datagrams queued in the UDP socket, not yet read
    codec,          \* a Message being built, written to a buffer and read back
    hardware_addr,  \* the last HardwareAddr constructed, and from what
    server,         \* the DHCP server: its builder, lease storage and flusher
    interface,      \* the interface ClientBuilder::build chose, and from what
    storage,        \* the FileStorage: its lease map, flag and lease file
    ev,             \* history: the last handler call, its inputs and effects
    after_init      \* history: first message type sent since Init was entered

vars == <<dhcp_state, client_state, run_result, socket, codec, hardware_addr, server,
          interface, storage, ev, after_init>>

(***************************************************************************)
(* Bounds of the model and constants of the program.                       *)
(***************************************************************************)
MaxXid == 1
MaxIp == 2
MaxQueue == 1
MaxOptions == 3
MaxWireOptions == 2
MaxStrLen == 3

MINIMAL_RETRANS_DURATION_SECS == 60
InitWaitMin == 1
InitWaitMax == 10

\* Option<T>: None is the empty set, Some(x) the singleton {x}.
None == {}
Some(x) == {x}
is_some(o) == o # {}
unwrap(o) == CHOOSE x \in o : TRUE
unwrap_or(o, default) == IF o # {} THEN unwrap(o) ELSE default
\* Ipv4Addr::BROADCAST, outside the addresses servers hold
BROADCAST == 255

Xids == 0..MaxXid
IpAddrs == 1..MaxIp
\* one DHCP server answers on the network; its address is one of IpAddrs
ServerAddrs == {1}
LeaseTimes == {7, 3600}
T1Values == {5000}
T2Values == {100}
TimeLeftValues == {60, 240}
InitWaits == InitWaitMin..InitWaitMax

DhcpState ==
    {"Init", "InitReboot", "Selecting", "SelectingSent", "Rebooting",
     "Requesting", "RequestingSent", "Rebinding", "RebindingSent",
     "Bound", "Renewing", "RenewingSent"}

DhcpMessageType == {"Offer", "Ack", "Nak"}

Opt(S) == {None} \cup {Some(x) : x \in S}

\* A received DHCP message, reduced to the fields the client reads.  The
\* handlers read options 54, 51 and yiaddr of an OFFER only and options 58
\* and 59 of an ACK only; the fields a handler never reads for a type are
\* left at their defaults (option absent, yiaddr 0.0.0.0).
Message(xid, type, opt54, opt51, opt58, opt59, yiaddr) ==
    [xid |-> xid, type |-> type, opt54 |-> opt54, opt51 |-> opt51,
     opt58 |-> opt58, opt59 |-> opt59, yiaddr |-> yiaddr]

Offers ==
    {Message(x, Some("Offer"), o54, o51, None, None, y) :
        x \in Xids, o54 \in Opt(ServerAddrs), o51 \in Opt(LeaseTimes), y \in IpAddrs}
Acks ==
    {Message(x, Some("Ack"), None, None, o58, o59, 0) :
        x \in Xids, o58 \in Opt(T1Values), o59 \in Opt(T2Values)}
Naks == {Message(x, Some("Nak"), None, None, None, None, 0) : x \in Xids}
Untyped == {Message(x, None, None, None, None, None, 0) : x \in Xids}

Messages == Offers \cup Acks \cup Naks \cup Untyped

\* The replies that may reach the socket while the client sleeps in Bound:
\* an OFFER, ACK or NAK with any xid.
BoundArrivals ==
    {m \in Messages :
        /\ m.type # None
        /\ m.opt54 = None /\ m.opt51 = None /\ m.opt58 = None /\ m.opt59 = None
        /\ m.yiaddr \in {0, 1}}

\* ClientState::default(): every Option is None, the transaction id is 0.
DefaultClientState ==
    [server_identifier |-> None, offered_ip_address |-> None,
     offered_lease_time |-> None, rebinding_time |-> None,
     renewal_time |-> None, transaction_id |-> 0,
     rebinding_time_left |-> None, renewal_time_left |-> None]

(***************************************************************************)
(* DhcpStateMachine::transition_to.  ret is "Ok", "DhcpStateError" or      *)
(* "Panic" (the todo!() arm); state is the DHCP state after the call.      *)
(***************************************************************************)
TransitionOk(next) == [ret |-> "Ok", state |-> next]
TransitionErr_falls_back(cur) == [ret |-> "DhcpStateError", state |-> "Init"]
TransitionErr(cur) == [ret |-> "DhcpStateError", state |-> cur]

transition_to(cur, state) ==
    CASE cur = "Init" ->
            IF state = "Selecting" THEN TransitionOk(state) ELSE TransitionErr(cur)
      [] cur = "InitReboot" -> [ret |-> "Panic", state |-> cur]
      [] cur = "Selecting" ->
            IF state = "SelectingSent" THEN TransitionOk(state) ELSE TransitionErr(cur)
      [] cur = "SelectingSent" ->
            IF state \in {"Selecting", "Requesting"}
            THEN TransitionOk(state) ELSE TransitionErr(cur)
      [] cur = "Rebooting" ->
            IF state \in {"Init", "InitReboot", "Bound"}
            THEN TransitionOk(state) ELSE TransitionErr(cur)
      [] cur = "Requesting" ->
            IF state = "RequestingSent" THEN TransitionOk(state) ELSE TransitionErr(cur)
      [] cur = "RequestingSent" ->
            IF state \in {"Init", "Requesting", "Bound"}
            THEN TransitionOk(state) ELSE TransitionErr(cur)
      [] cur = "Rebinding" ->
            IF state = "RebindingSent" THEN TransitionOk(state) ELSE TransitionErr(cur)
      [] cur = "RebindingSent" ->
            IF state \in {"Init", "Bound"}
            THEN TransitionOk(state) ELSE TransitionErr(cur)
      [] cur = "Bound" ->
            IF state \in {"Bound", "Renewing"}
            THEN TransitionOk(state) ELSE TransitionErr(cur)
      [] cur = "Renewing" ->
            IF state = "RenewingSent" THEN TransitionOk(state) ELSE TransitionErr(cur)
      [] cur = "RenewingSent" ->
            IF state \in {"Init", "Renewing", "Rebinding", "Bound"}
            THEN TransitionOk(state) ELSE TransitionErr(cur)

(***************************************************************************)
(* Helpers of Message the handlers call.                                   *)
(***************************************************************************)
valid_xid(message, xid) == message.xid = xid
valid_message_type(message, ty) == message.type = Some(ty)
get_message_type(message) == message.type
get_renewal_t1_time(message) == message.opt58
get_rebinding_t2_time(message) == message.opt59

\* Client::get_xid and Client::destination_addr
get_xid_initial(cs) == 0
get_xid(cs) == cs.transaction_id
destination_addr(cs) ==
    IF is_some(cs.server_identifier) THEN unwrap(cs.server_identifier) ELSE BROADCAST

\* A message on the wire: its type, xid, the ServerIdentifier option (None
\* when omitted), the requested address and lease, and the UDP destination
\* send_message chooses.
Wire(ty, xid, sid, addr, lease, dest) ==
    [type |-> ty, xid |-> xid, server_identifier |-> sid,
     requested_addr |-> addr, lease_time |-> lease, dest |-> dest]

make_discover_message(xid, destination, dest) ==
    Wire("Discover", xid, Some(destination), None, None, dest)
make_request_message(xid, destination, offered_addr, offered_lease_time, dest) ==
    Wire("Request", xid, Some(destination), Some(offered_addr),
         Some(offered_lease_time), dest)
make_renewing_message(xid, addr, lease, dest) ==
    Wire("Request", xid, None, Some(addr), Some(lease), dest)

(***************************************************************************)
(* What a handler call leaves behind: the DHCP state, the ClientState, the *)
(* value the handler returned ("Ok", or the error run returns, or "Panic"),*)
(* how long it slept and the message it sent (None when it did neither).   *)
(***************************************************************************)
Outcome(st, cs, ret, slept, sent) ==
    [state |-> st, cs |-> cs, ret |-> ret, slept |-> slept, sent |-> sent]

\* Ok(self.transition_to(target)?) at the end of a handler.
Transition(st, cs, target, slept, sent) ==
    LET t == transition_to(st, target)
    IN  Outcome(t.state, cs, t.ret, slept, sent)

\* What a receive hands to a handler.
NoRecv == [kind |-> "NoRecv", msg |-> None]
RecvOutcomes ==
    {[kind |-> k, msg |-> None] : k \in {"Error", "WouldBlock"}}
        \cup {[kind |-> "Message", msg |-> Some(m)] : m \in Messages}
RecvTimeoutOutcomes == RecvOutcomes \cup {[kind |-> "Timeout", msg |-> None]}

\* (lease as f64 * 0.5) as u32 and (lease as f64 * 0.875) as u32: both
\* products are exact in f64 for a u32 lease, the cast truncates.
default_renewal_time(lease) == lease \div 2
default_rebinding_time_three_quarters(lease) == (3 * lease) \div 4
default_rebinding_time(lease) == (7 * lease) \div 8

\* "Set lease, T1 and T2 timers (DHCPACK)" up to the transition to BOUND,
\* the same code in the three *Sent handlers that accept an ACK.  unwrap_or
\* takes its default by value, so offered_lease_time is unwrapped even when
\* the ACK carries the option.
handle_ack(st, cs, message, cmd_ok) ==
    IF cs.offered_lease_time = None
    THEN Outcome(st, cs, "Panic", None, None)
    ELSE
      LET lease == unwrap(cs.offered_lease_time)
          t1 == unwrap_or(get_renewal_t1_time(message),
                          default_renewal_time(lease))
          t2 == unwrap_or(get_rebinding_t2_time(message),
                          default_rebinding_time(lease))
          cs1 == [cs EXCEPT !.renewal_time = Some(t1),
                            !.rebinding_time = Some(t2)]
      IN  IF cs1.offered_ip_address = None
          THEN Outcome(st, cs1, "Panic", None, None)
          ELSE IF ~cmd_ok
          THEN Outcome(st, cs1, "CmdError", None, None)
          ELSE Transition(st, cs1, "Bound", None, None)

\* `match message.get_message_type()` of the three handlers that wait for
\* the reply to a DHCPREQUEST: a NAK leads to INIT, an ACK is accepted, any
\* other type and a message without a type are ignored.
handle_reply_nak_ignored(st, cs, message, cmd_ok) ==
    CASE get_message_type(message) = Some("Ack") ->
            handle_ack(st, cs, message, cmd_ok)
      [] OTHER -> Outcome(st, cs, "Ok", None, None)

handle_reply(st, cs, message, cmd_ok) ==
    CASE get_message_type(message) = Some("Nak") ->
            Transition(st, cs, "Init", None, None)
      [] get_message_type(message) = Some("Ack") ->
            handle_ack(st, cs, message, cmd_ok)
      [] OTHER -> Outcome(st, cs, "Ok", None, None)

(***************************************************************************)
(* The handlers of Client::run.                                            *)
(***************************************************************************)
handle_init_renews_xid(st, cs, wait) ==
    Transition(st, [cs EXCEPT !.transaction_id = (@ + 1) % (MaxXid + 1)],
               "Selecting", Some(wait), None)
handle_init(st, cs, wait) == Transition(st, cs, "Selecting", Some(wait), None)

handle_init_reboot(st, cs) == Outcome(st, cs, "Ok", None, None)

handle_selecting(st, cs, send_ok) ==
    IF ~send_ok
    THEN Outcome(st, cs, "IO", None, None)
    ELSE Transition(st, cs, "SelectingSent", None,
            Some(make_discover_message(get_xid(cs), destination_addr(cs),
                                       destination_addr(cs))))

\* "Select offer": the server identifier and the lease time are taken from
\* the options when the OFFER carries them, the offered address from yiaddr.
select_offer_overwrite(cs, message) ==
    [cs EXCEPT !.server_identifier = message.opt54,
               !.offered_lease_time = message.opt51,
               !.offered_ip_address = Some(message.yiaddr)]

select_offer(cs, message) ==
    LET cs1 == IF is_some(message.opt54)
               THEN [cs EXCEPT !.server_identifier = message.opt54]
               ELSE cs
        cs2 == IF is_some(message.opt51)
               THEN [cs1 EXCEPT !.offered_lease_time = message.opt51]
               ELSE cs1
    IN  [cs2 EXCEPT !.offered_ip_address = Some(message.yiaddr)]

handle_selecting_sent(st, cs, recv) ==
    CASE recv.kind = "Timeout" -> Transition(st, cs, "Init", None, None)
      [] recv.kind = "Error" -> Outcome(st, cs, "IO", None, None)
      [] recv.kind = "WouldBlock" -> Outcome(st, cs, "Ok", None, None)
      [] recv.kind = "Message" ->
            LET message == unwrap(recv.msg) IN
            IF ~valid_xid(message, get_xid(cs))
            THEN Outcome(st, cs, "Ok", None, None)
            ELSE IF ~valid_message_type(message, "Offer")
            THEN Outcome(st, cs, "Ok", None, None)
            ELSE Transition(st, select_offer(cs, message), "Requesting",
                            None, None)

handle_rebooting(st, cs) == Outcome(st, cs, "Ok", None, None)

handle_requesting(st, cs, send_ok) ==
    IF cs.offered_ip_address = None \/ cs.offered_lease_time = None
    THEN Outcome(st, cs, "Panic", None, None)
    ELSE IF ~send_ok
    THEN Outcome(st, cs, "IO", None, None)
    ELSE Transition(st, cs, "RequestingSent", None,
            Some(make_request_message(get_xid(cs), destination_addr(cs),
                    unwrap(cs.offered_ip_address), unwrap(cs.offered_lease_time),
                    destination_addr(cs))))

handle_requesting_sent(st, cs, recv, cmd_ok) ==
    CASE recv.kind = "Timeout" -> Transition(st, cs, "Init", None, None)
      [] recv.kind = "Error" -> Outcome(st, cs, "IO", None, None)
      [] recv.kind = "WouldBlock" -> Outcome(st, cs, "Ok", None, None)
      [] recv.kind = "Message" ->
            LET message == unwrap(recv.msg) IN
            IF ~valid_xid(message, get_xid(cs))
            THEN Outcome(st, cs, "Ok", None, None)
            ELSE handle_reply(st, cs, message, cmd_ok)

handle_rebinding(st, cs, send_ok) ==
    LET cs1 == [cs EXCEPT !.server_identifier = None] IN
    IF cs1.offered_ip_address = None \/ cs1.offered_lease_time = None
    THEN Outcome(st, cs1, "Panic", None, None)
    ELSE IF ~send_ok
    THEN Outcome(st, cs1, "IO", None, None)
    ELSE Transition(st, cs1, "RebindingSent", None,
            Some(make_renewing_message(get_xid(cs1),
                    unwrap(cs1.offered_ip_address), unwrap(cs1.offered_lease_time),
                    destination_addr(cs1))))

handle_rebinding_sent(st, cs, recv, cmd_ok) ==
    CASE recv.kind = "Error" -> Outcome(st, cs, "IO", None, None)
      [] recv.kind = "WouldBlock" ->
            IF cs.rebinding_time_left = None
            THEN Outcome(st, cs, "Invalid", None, None)
            ELSE LET time == unwrap(cs.rebinding_time_left) IN
                 IF time < MINIMAL_RETRANS_DURATION_SECS * 2
                 THEN Transition(st, cs, "Init", None, None)
                 ELSE Transition(st,
                        [cs EXCEPT !.rebinding_time_left = Some(time \div 2)],
                        "Rebinding", Some(time), None)
      [] recv.kind = "Message" ->
            LET message == unwrap(recv.msg) IN
            IF ~valid_xid(message, get_xid(cs))
            THEN Outcome(st, cs, "Ok", None, None)
            ELSE handle_reply(st, cs, message, cmd_ok)

handle_bound(st, cs) ==
    IF cs.renewal_time = None
    THEN Outcome(st, cs, "Invalid", None, None)
    ELSE Transition(st, cs, "Renewing", cs.renewal_time, None)

\* renew_xid, then build and send the renewing DHCPREQUEST.
handle_renewing(st, cs, random_xid, send_ok) ==
    LET cs1 == [cs EXCEPT !.transaction_id = random_xid] IN
    IF cs1.offered_ip_address = None \/ cs1.offered_lease_time = None
    THEN Outcome(st, cs1, "Panic", None, None)
    ELSE IF ~send_ok
    THEN Outcome(st, cs1, "IO", None, None)
    ELSE Transition(st, cs1, "RenewingSent", None,
            Some(make_renewing_message(get_xid(cs1),
                    unwrap(cs1.offered_ip_address), unwrap(cs1.offered_lease_time),
                    destination_addr(cs1))))

handle_renewing_sent(st, cs, recv, cmd_ok) ==
    CASE recv.kind = "Error" -> Outcome(st, cs, "IO", None, None)
      [] recv.kind = "WouldBlock" ->
            IF cs.renewal_time_left = None
            THEN Outcome(st, cs, "Invalid", None, None)
            ELSE LET time == unwrap(cs.renewal_time_left) IN
                 IF time < MINIMAL_RETRANS_DURATION_SECS * 2
                 THEN Transition(st, cs, "Rebinding", None, None)
                 ELSE Transition(st,
                        [cs EXCEPT !.renewal_time_left = Some(time \div 2)],
                        "Renewing", Some(time), None)
      [] recv.kind = "Message" ->
            LET message == unwrap(recv.msg) IN
            IF ~valid_xid(message, get_xid(cs))
            THEN Outcome(st, cs, "Ok", None, None)
            ELSE handle_reply(st, cs, message, cmd_ok)

(***************************************************************************)
(* The wire codec (types/): a Message with its ordered option list, the    *)
(* bytes Message::write appends to a WriteBuffer and what Message::read    *)
(* makes of a datagram.  Bytes are numbers 0..255; an OptionTag is         *)
(* identified with the code OptionTag::try_from maps to it.                *)
(***************************************************************************)
Zeros(n) == [i \in 1..n |-> 0]

\* OptionData: the variant and its payload, a sequence of numbers (the four
\* octets of an Ipv4Addr, the one number of a u8/u16/u32, the tag codes of a
\* ParameterRequestList, nothing for Pad and End).
OptionData(kind, val) == [kind |-> kind, val |-> val]

\* OptionData::size
size(data) ==
    CASE data.kind \in {"Pad", "End"} -> 1
      [] data.kind \in {"SubnetMask", "RequestedIpAddr", "IpAddrLeaseTime",
                        "ServerIdentifier", "RenewalT1Time", "RebindingT2Time"} -> 4
      [] data.kind = "DhcpMessageType" -> 1
      [] data.kind = "MaxDhcpMessageSize" -> 2
      [] data.kind = "ParameterRequestList" -> Len(data.val)

\* The variants for which OptionData::size and OptionData::write are todo!().
write_todo(data) == data.kind \in {"ClassIdentifier", "ClientIdentifier"}

\* OptionData::len: the number of payload octets, which for the variants
\* OptionData::size covers is what size returns.
OptionData_len(data) ==
    IF write_todo(data) THEN Len(data.val) ELSE size(data)

\* DhcpOption::new: the header's len is taken from the data.
DhcpOption_new(tag, data) ==
    [header |-> [tag |-> tag, len |-> OptionData_len(data)], data |-> data]

\* Header::default with the given xid, and Message::default around it.
new_with_xid(xid) ==
    [header |-> [opcode |-> "BootRequest", htype |-> "Ethernet", hlen |-> 6,
                 hops |-> 0, xid |-> xid, secs |-> 0, flags |-> 0],
     ciaddr |-> Zeros(4), yiaddr |-> Zeros(4), siaddr |-> Zeros(4),
     giaddr |-> Zeros(4),
     chaddr |-> [addr |-> <<>>, padding |-> Zeros(16)],
     sname |-> Zeros(64), file |-> Zeros(128), options |-> <<>>]

\* Message::add_option
add_option_push(message, option) ==
    [ret |-> "Ok",
     message |-> [message EXCEPT !.options = Append(@, option)]]

add_option(message, option) ==
    IF \E i \in 1..Len(message.options) :
            message.options[i].header.tag = option.header.tag
    THEN [ret |-> "DuplicateOptionError", message |-> message]
    ELSE [ret |-> "Ok",
          message |-> [message EXCEPT !.options = Append(@, option)]]

\* The options the codec is exercised with.
CodecOptions ==
    {DhcpOption_new(0, OptionData("Pad", <<>>)),
     DhcpOption_new(255, OptionData("End", <<>>)),
     DhcpOption_new(1, OptionData("SubnetMask", <<255, 255, 255, 0>>)),
     DhcpOption_new(51, OptionData("IpAddrLeaseTime", <<3600>>)),
     DhcpOption_new(53, OptionData("DhcpMessageType", <<1>>)),
     DhcpOption_new(53, OptionData("DhcpMessageType", <<3>>)),
     DhcpOption_new(54, OptionData("ServerIdentifier", <<10, 0, 0, 1>>)),
     DhcpOption_new(55, OptionData("ParameterRequestList", <<3, 6, 58, 59>>)),
     DhcpOption_new(57, OptionData("MaxDhcpMessageSize", <<576>>))}

\* Message::set_hardware_address
set_hardware_address(message, haddr) ==
    [message EXCEPT !.header.hlen = Len(haddr.addr), !.chaddr = haddr]

\* HardwareAddr for an address of at most 16 octets (TryFrom<String>).
HardwareAddr_padding10(addr) == [addr |-> addr, padding |-> Zeros(10)]

HardwareAddr(addr) == [addr |-> addr, padding |-> Zeros(16 - Len(addr))]

\* What the last HardwareAddr constructor was, its input and its result.
Haddr(op, input, ret, value) ==
    [op |-> op, input |-> input, ret |-> ret, value |-> value]
NoHaddr == Haddr("none", <<>>, "Ok", HardwareAddr(<<>>))

NoServer == [op |-> "new"]

NoInterface == [op |-> "new"]

NoStorage == [op |-> "new"]

\* Big-endian integers (binbuf's u16/u32 under BigEndian).
be(n, w) == [i \in 1..w |-> (n \div (256 ^ (w - i))) % 256]
RECURSIVE from_be(_)
from_be(b) ==
    IF b = <<>> THEN 0
    ELSE 256 * from_be(SubSeq(b, 1, Len(b) - 1)) + b[Len(b)]

\* A u32 read from four octets.  Values above 2^31 - 1 are held as
\* v - 2^32, which be(.., 4) maps back to the same four octets.
u32_from_be(b) ==
    (IF b[1] >= 128 THEN b[1] - 256 ELSE b[1]) * 16777216
        + from_be(SubSeq(b, 2, 4))

RECURSIVE Concat(_)
Concat(ss) == IF ss = <<>> THEN <<>> ELSE Head(ss) \o Concat(Tail(ss))

MAGIC_COOKIE_ARR == <<99, 130, 83, 99>>
MINIMUM_LEGAL_MAX_MESSAGE_SIZE == 576
MIN_MSG_SIZE == 300

(***************************************************************************)
(* Writeable: the bytes each write appends to the WriteBuffer.             *)
(***************************************************************************)
OpCode_write(opcode) == << IF opcode = "BootRequest" THEN 1 ELSE 2 >>

\* HardwareType::write pushes nothing (the push is commented out).
HardwareType_write(htype) == <<>>

Header_write(h) ==
    OpCode_write(h.opcode) \o HardwareType_write(h.htype) \o <<h.hlen>>
        \o <<h.hops>> \o be(h.xid, 4) \o be(h.secs, 2) \o be(h.flags, 2)

\* OptionTag::write pushes nothing (the push is commented out).
OptionTag_write(tag) == <<>>

OptionHeader_write(h) == OptionTag_write(h.tag) \o <<h.len>>

Ipv4Kinds == {"SubnetMask", "RequestedIpAddr", "ServerIdentifier"}
U32Kinds == {"TimeOffset", "IpAddrLeaseTime", "RenewalT1Time", "RebindingT2Time"}
IpSetKinds == {"Router", "TimeServer", "NameServer", "DomainNameServer",
               "LogServer", "CookieServer", "LprServer", "ImpressServer"}

OptionData_write(data) ==
    CASE data.kind = "Pad" -> <<0>>
      [] data.kind = "End" -> <<255>>
      [] data.kind \in Ipv4Kinds \cup IpSetKinds -> data.val
      [] data.kind \in U32Kinds -> be(data.val[1], 4)
      [] data.kind = "DhcpMessageType" -> <<data.val[1]>>
      [] data.kind = "ParameterRequestList" ->
            Concat([i \in 1..Len(data.val) |-> OptionTag_write(data.val[i])])
      [] data.kind = "MaxDhcpMessageSize" -> be(data.val[1], 2)

DhcpOption_write(option) ==
    OptionHeader_write(option.header) \o OptionData_write(option.data)

(***************************************************************************)
(* Writeable: the count each write returns in its Ok.  The writes of u8,   *)
(* u16, u32, Ipv4Addr, Vec and arrays return the number of bytes they      *)
(* append.                                                                 *)
(***************************************************************************)
OpCode_write_n(opcode) == 1

\* HardwareType::write: Ok(1)
HardwareType_write_n(htype) == 1

\* bytes_written! adds up what the seven writes return.
Header_write_n(h) ==
    OpCode_write_n(h.opcode) + HardwareType_write_n(h.htype) + 1 + 1 + 4 + 2 + 2

\* OptionTag::write: Ok(1)
OptionTag_write_n(tag) == 1

OptionHeader_write_n(h) == OptionTag_write_n(h.tag) + 1

\* ParameterRequestList::write: Ok(self.0.len())
ParameterRequestList_write_n(list) == Len(list)

OptionData_write_n(data) ==
    IF data.kind = "ParameterRequestList"
    THEN ParameterRequestList_write_n(data.val)
    ELSE Len(OptionData_write(data))

DhcpOption_write_n(option) ==
    OptionHeader_write_n(option.header) + OptionData_write_n(option.data)

RECURSIVE Sum(_)
Sum(ns) == IF ns = <<>> THEN 0 ELSE Head(ns) + Sum(Tail(ns))

\* n of Message::write when it returns Ok(n).
Message_write_n(m) ==
    Header_write_n(m.header) + Len(m.ciaddr) + Len(m.yiaddr) + Len(m.siaddr)
        + Len(m.giaddr) + Len(m.chaddr.addr) + Len(m.chaddr.padding)
        + Len(m.sname) + Len(m.file) + Len(MAGIC_COOKIE_ARR)
        + Sum([i \in 1..Len(m.options) |-> DhcpOption_write_n(m.options[i])])

\* Message::write: [ret, bytes, n].  A failing chaddr leaves the bytes
\* written before it in the buffer; an option whose OptionData::write is
\* todo!() panics.
Message_write(m) ==
    LET head == Header_write(m.header) \o m.ciaddr \o m.yiaddr \o m.siaddr
                    \o m.giaddr
    IN  IF Len(m.chaddr.addr) + Len(m.chaddr.padding) # 16
        THEN [ret |-> "InvalidData", bytes |-> head, n |-> 0]
        ELSE IF \E i \in 1..Len(m.options) : write_todo(m.options[i].data)
        THEN [ret |-> "panic", bytes |-> head, n |-> 0]
        ELSE [ret |-> "Ok", n |-> Message_write_n(m),
              bytes |-> head \o m.chaddr.addr \o m.chaddr.padding \o m.sname
                  \o m.file \o MAGIC_COOKIE_ARR
                  \o Concat([i \in 1..Len(m.options) |->
                                DhcpOption_write(m.options[i])])]

(***************************************************************************)
(* Readable: what each read makes of the bytes left in the ReadBuffer.     *)
(* A result is [ret, val, rest]; val and rest mean something when ret is   *)
(* "Ok".  "panic" is a todo!() reached.                                     *)
(***************************************************************************)
Ok(val, rest) == [ret |-> "Ok", val |-> val, rest |-> rest]
Err(e) == [ret |-> e, val |-> <<>>, rest |-> <<>>]
Drop(b, n) == SubSeq(b, n + 1, Len(b))
Take(b, n) == SubSeq(b, 1, n)

\* ReadBuffer::read_vec / read_slice
read_vec(b, n) == IF Len(b) < n THEN Err("BufTooShort") ELSE Ok(Take(b, n), Drop(b, n))

\* OptionTag::try_from: the codes that are tags.
OptionTags == (0..61) \cup {108, 114, 255}

KindOf(tag) ==
    CASE tag = 0 -> "Pad"               [] tag = 255 -> "End"
      [] tag = 1 -> "SubnetMask"        [] tag = 2 -> "TimeOffset"
      [] tag = 3 -> "Router"            [] tag = 4 -> "TimeServer"
      [] tag = 5 -> "NameServer"        [] tag = 6 -> "DomainNameServer"
      [] tag = 7 -> "LogServer"         [] tag = 8 -> "CookieServer"
      [] tag = 9 -> "LprServer"         [] tag = 10 -> "ImpressServer"
      [] tag = 12 -> "HostName"
      [] tag = 50 -> "RequestedIpAddr"  [] tag = 51 -> "IpAddrLeaseTime"
      [] tag = 53 -> "DhcpMessageType"  [] tag = 54 -> "ServerIdentifier"
      [] tag = 55 -> "ParameterRequestList"
      [] tag = 57 -> "MaxDhcpMessageSize"
      [] tag = 58 -> "RenewalT1Time"    [] tag = 59 -> "RebindingT2Time"
      [] tag = 60 -> "ClassIdentifier"  [] tag = 61 -> "ClientIdentifier"
      [] OTHER -> "todo"

\* OptionHeader::read: Pad and End have no len byte.
OptionHeader_read(b) ==
    IF b = <<>> THEN Err("BufTooShort")
    ELSE IF b[1] \notin OptionTags THEN Err("InvalidTag")
    ELSE IF b[1] \in {0, 255} THEN Ok([tag |-> b[1], len |-> 1], Tail(b))
    ELSE IF Len(b) < 2 THEN Err("BufTooShort")
    ELSE Ok([tag |-> b[1], len |-> b[2]], Drop(b, 2))

\* ParameterRequestList::read
ParameterRequestList_read(b, len) ==
    IF len = 0 THEN Err("InvalidParameterCount")
    ELSE IF \E i \in 1..len : i <= Len(b) /\ b[i] \notin OptionTags
         THEN Err("InvalidTag")
    ELSE IF Len(b) < len THEN Err("BufTooShort")
    ELSE Ok(Take(b, len), Drop(b, len))

\* OptionData::read: the fixed-size variants read their own width and never
\* look at header.len.
OptionData_read(b, header) ==
    LET kind == KindOf(header.tag)
        data(r, val) ==
            IF r.ret = "Ok" THEN Ok(OptionData(kind, val), r.rest) ELSE r
    IN  CASE kind \in {"Pad", "End"} -> Ok(OptionData(kind, <<>>), b)
          [] kind \in Ipv4Kinds ->
                LET r == read_vec(b, 4) IN data(r, r.val)
          [] kind \in U32Kinds ->
                LET r == read_vec(b, 4)
                IN  IF r.ret = "Ok" THEN data(r, <<u32_from_be(r.val)>>) ELSE r
          [] kind \in IpSetKinds ->
                IF header.len < 4 \/ header.len % 4 # 0 THEN Err("InvalidData")
                ELSE LET r == read_vec(b, header.len) IN data(r, r.val)
          [] kind = "DhcpMessageType" ->
                LET r == read_vec(b, 1)
                IN  IF r.ret = "Ok" /\ r.val[1] \notin 1..7
                    THEN Err("InvalidData") ELSE data(r, r.val)
          [] kind = "ParameterRequestList" ->
                LET r == ParameterRequestList_read(b, header.len)
                IN  data(r, r.val)
          [] kind = "MaxDhcpMessageSize" ->
                LET r == read_vec(b, 2)
                IN  IF r.ret = "Ok"
                        /\ from_be(r.val) < MINIMUM_LEGAL_MAX_MESSAGE_SIZE
                    THEN Err("InvalidDhcpMessageSize")
                    ELSE IF r.ret = "Ok" THEN data(r, <<from_be(r.val)>>)
                    ELSE r
          [] kind \in {"HostName", "ClassIdentifier", "ClientIdentifier"} ->
                \* String::from_utf8(..).unwrap() on bytes that are not
                \* ASCII is left out: a valid multi-byte sequence is
                \* accepted, any other one panics.
                IF (kind = "ClientIdentifier" /\ header.len < 2)
                    \/ (kind = "ClassIdentifier" /\ header.len = 0)
                THEN Err("InvalidData")
                ELSE LET r == read_vec(b, header.len)
                     IN  IF r.ret = "Ok" /\ kind # "ClientIdentifier"
                             /\ \E i \in 1..Len(r.val) : r.val[i] > 127
                         THEN Err("utf8") ELSE data(r, r.val)
          [] OTHER -> Err("panic")

\* DhcpOption::read
DhcpOption_read(b) ==
    LET h == OptionHeader_read(b)
    IN  IF h.ret # "Ok" THEN h
        ELSE LET d == OptionData_read(h.rest, h.val)
             IN  IF d.ret # "Ok" THEN d
                 ELSE Ok([header |-> h.val, data |-> d.val], d.rest)

\* read_options: every option up to the end of the buffer.
RECURSIVE read_options_loop(_, _)
read_options_loop(b, options) ==
    IF b = <<>> THEN Ok(options, <<>>)
    ELSE LET r == DhcpOption_read(b)
         IN  IF r.ret # "Ok" THEN r
             ELSE read_options_loop(r.rest, Append(options, r.val))

read_options(b) ==
    IF b = <<>> THEN Err("BufTooShort") ELSE read_options_loop(b, <<>>)

\* Header::read
Header_read(b) ==
    IF b = <<>> THEN Err("BufTooShort")
    ELSE IF b[1] \notin {1, 2} THEN Err("InvalidCode")
    ELSE IF Len(b) < 2 THEN Err("BufTooShort")
    ELSE IF b[2] # 1 THEN Err("InvalidType")
    ELSE IF Len(b) < 12 THEN Err("BufTooShort")
    ELSE Ok([opcode |-> IF b[1] = 1 THEN "BootRequest" ELSE "BootReply",
             htype |-> "Ethernet", hlen |-> b[3], hops |-> b[4],
             xid |-> u32_from_be(SubSeq(b, 5, 8)), secs |-> from_be(SubSeq(b, 9, 10)),
             flags |-> from_be(SubSeq(b, 11, 12))],
            Drop(b, 12))

\* HardwareAddr::read
HardwareAddr_read(b, hlen) ==
    IF hlen > 16 THEN Err("InvalidData")
    ELSE LET r == read_vec(b, 16)
         IN  IF r.ret # "Ok" THEN r
             ELSE Ok([addr |-> Take(r.val, hlen), padding |-> Drop(r.val, hlen)],
                     r.rest)

\* Message::read
Message_read(b) ==
    LET h == Header_read(b) IN
    IF h.ret # "Ok" THEN h
    ELSE IF Len(h.rest) < 16 THEN Err("BufTooShort")
    ELSE LET c == HardwareAddr_read(Drop(h.rest, 16), h.val.hlen) IN
    IF c.ret # "Ok" THEN c
    ELSE IF Len(c.rest) < 64 + 128 THEN Err("BufTooShort")
    ELSE IF Len(c.rest) < 64 + 128 + 4 THEN Err("BufTooShort")
    ELSE IF SubSeq(c.rest, 193, 196) # MAGIC_COOKIE_ARR THEN Err("InvalidData")
    ELSE LET o == read_options(Drop(c.rest, 196)) IN
    IF o.ret # "Ok" THEN o
    ELSE Ok([header |-> h.val,
             ciaddr |-> SubSeq(h.rest, 1, 4), yiaddr |-> SubSeq(h.rest, 5, 8),
             siaddr |-> SubSeq(h.rest, 9, 12), giaddr |-> SubSeq(h.rest, 13, 16),
             chaddr |-> c.val,
             sname |-> Take(c.rest, 64), file |-> SubSeq(c.rest, 65, 192),
             options |-> o.val],
            <<>>)

\* Message::add_option_parts and Message::end
add_option_parts(message, tag, data) ==
    add_option(message, DhcpOption_new(tag, data))

end(message) == add_option_parts(message, 255, OptionData("End", <<>>))

\* A run of add_option_parts calls, each followed by `?`.
RECURSIVE add_all(_, _)
add_all(message, parts) ==
    IF parts = <<>> THEN [ret |-> "Ok", message |-> message]
    ELSE LET r == add_option_parts(message, Head(parts)[1], Head(parts)[2])
         IN  IF r.ret # "Ok" THEN r ELSE add_all(r.message, Tail(parts))

\* The octets of the addresses the client model numbers 1..MaxIp, and of
\* Ipv4Addr::BROADCAST.
Ipv4Addr(ip) == IF ip = BROADCAST THEN <<255, 255, 255, 255>> ELSE <<10, 0, 0, ip>>

DEFAULT_MAX_DHCP_MESSAGE_SIZE == 1500

\* MessageBuilder::new
MessageBuilder_new(client_hardware_addr, client_identifier, max_dhcp_message_size) ==
    [client_hardware_addr |-> client_hardware_addr,
     client_identifier |-> client_identifier,
     max_dhcp_message_size |-> max_dhcp_message_size]

\* MessageBuilder::add_default_options: the tag and data it adds
add_default_options(self) ==
    <<57, OptionData("MaxDhcpMessageSize", <<self.max_dhcp_message_size>>)>>

\* ClientIdentifier::from(Vec<u8>): the type octet 1, then the identifier
ClientIdentifier_from(value) == <<1>> \o value

\* MessageBuilder::default_request_parameter_list
default_request_parameter_list_router == OptionData("ParameterRequestList", <<3>>)

default_request_parameter_list == OptionData("ParameterRequestList", <<3, 6, 58, 59>>)

\* MessageBuilder::make_request_message, on the wire codec's Message
MessageBuilder_make_request_message(self, xid, destination, offered_addr, offered_lease_time) ==
    LET r == add_all(new_with_xid(xid),
                <<add_default_options(self),
                  <<53, OptionData("DhcpMessageType", <<3>>)>>,
                  <<54, OptionData("ServerIdentifier", Ipv4Addr(destination))>>,
                  <<50, OptionData("RequestedIpAddr", Ipv4Addr(offered_addr))>>,
                  <<51, OptionData("IpAddrLeaseTime", <<offered_lease_time>>)>>,
                  <<55, default_request_parameter_list>>,
                  <<255, OptionData("End", <<>>)>> >>)
    IN  IF r.ret # "Ok" THEN r
        ELSE [ret |-> "Ok",
              message |-> set_hardware_address(r.message,
                                               self.client_hardware_addr)]

\* MessageBuilder::make_discover_message, on the wire codec's Message
MessageBuilder_make_discover_message(self, xid, destination, requested_addr, requested_lease_time) ==
    LET r == add_all(new_with_xid(xid),
                <<add_default_options(self),
                  <<53, OptionData("DhcpMessageType", <<1>>)>>,
                  <<54, OptionData("ServerIdentifier",
                                   Ipv4Addr(unwrap_or(destination, BROADCAST)))>> >>
                \o (IF is_some(requested_addr)
                    THEN <<<<50, OptionData("RequestedIpAddr",
                                            Ipv4Addr(unwrap(requested_addr)))>> >>
                    ELSE <<>>)
                \o (IF is_some(requested_lease_time)
                    THEN <<<<51, OptionData("IpAddrLeaseTime",
                                            <<unwrap(requested_lease_time)>>)>> >>
                    ELSE <<>>)
                \o <<<<61, OptionData("ClientIdentifier",
                                     ClientIdentifier_from(
                                         unwrap_or(self.client_identifier,
                                                   self.client_hardware_addr.addr)))>>,
                     <<55, default_request_parameter_list>>,
                     <<255, OptionData("End", <<>>)>> >>)
    IN  IF r.ret # "Ok" THEN r
        ELSE [ret |-> "Ok",
              message |-> set_hardware_address(r.message,
                                               self.client_hardware_addr)]

\* The transaction ids and hardware addresses the codec is exercised with.
CodecXids == Xids \cup {287454020}
HardwareAddrs == {HardwareAddr(<<0, 17, 34, 51, 68, 85>>)}

(***************************************************************************)
(* Datagrams a server puts in the socket, in the RFC 2131 layout: a reply  *)
(* header with its htype octet, zero addresses, sname and file, the cookie, *)
(* then an option area made of tag-len-data triples, an End octet and what *)
(* follows it.                                                             *)
(***************************************************************************)
Tlv(tag, len, data) == [tag |-> tag, len |-> len, data |-> data]
Tlv_bytes(o) == <<o.tag, o.len>> \o o.data

\* The len each fixed-size tag requires.
RequiredLen(tag) ==
    CASE tag \in {1, 50, 51, 54, 58, 59} -> 4
      [] tag = 53 -> 1
      [] tag = 57 -> 2

WellFormedTlvs ==
    {Tlv(53, 1, <<2>>), Tlv(54, 4, <<10, 0, 0, 1>>),
     Tlv(51, 4, <<0, 0, 14, 16>>)}

\* Options whose declared len is not the one their tag requires.
MismatchedTlvs ==
    {Tlv(1, 2, <<255, 255>>), Tlv(53, 2, <<2, 0>>),
     Tlv(54, 6, <<10, 0, 0, 1, 0, 0>>), Tlv(57, 4, <<5, 220, 0, 0>>)}

\* OptionTag::try_from: the one code that gives UnassignedOrRemoved(code).
UnassignedOrRemovedTags == {108}

\* Options whose tag is no assigned RFC 1533 tag: one try_from maps to
\* UnassignedOrRemoved, one it maps to nothing.
UnknownTlvs == {Tlv(108, 1, <<7>>), Tlv(200, 1, <<7>>)}

\* What a datagram may carry after its End octet: nothing, zero padding,
\* one more option, octets that are no option.
Trailers == {<<>>, <<0>>, <<0, 0>>, <<53, 1, 5>>, <<200>>, <<7>>}

RECURSIVE SeqsUpTo(_, _)
SeqsUpTo(S, n) ==
    IF n = 0 THEN {<<>>}
    ELSE LET shorter == SeqsUpTo(S, n - 1)
         IN  shorter \cup {Append(q, x) : q \in shorter, x \in S}

NoWire == [options |-> <<>>, trailer |-> <<>>]

\* The builders the client may hold (ClientBuilder::build), and the
\* arguments of a make_discover_message / make_request_message call.
MaxDhcpMessageSizes == {DEFAULT_MAX_DHCP_MESSAGE_SIZE, 576, 575}
ClientIdentifiers == Opt({<<9, 9>>})
Builders ==
    {MessageBuilder_new(a, c, n) : a \in HardwareAddrs, c \in ClientIdentifiers,
                                   n \in MaxDhcpMessageSizes}
Args(self, destination, addr, lease_time) ==
    [self |-> self, destination |-> destination, addr |-> addr,
     lease_time |-> lease_time]
NoArgs ==
    Args(MessageBuilder_new(HardwareAddr(<<>>), None, DEFAULT_MAX_DHCP_MESSAGE_SIZE),
         None, None, None)
Wires ==
    [options : SeqsUpTo(WellFormedTlvs \cup MismatchedTlvs \cup UnknownTlvs,
                        MaxWireOptions),
     trailer : Trailers]

Datagram(xid, area) ==
    <<2, 1, 6, 0>> \o be(xid, 4) \o Zeros(4) \o Zeros(16)
        \o <<0, 17, 34, 51, 68, 85>> \o Zeros(10) \o Zeros(64) \o Zeros(128)
        \o MAGIC_COOKIE_ARR \o area

\* The option area up to and including End, and the whole of it.
UpToEnd(wire) ==
    Concat([i \in 1..Len(wire.options) |-> Tlv_bytes(wire.options[i])])
        \o <<255>>
Area(wire) == UpToEnd(wire) \o wire.trailer

\* What the last codec call was, the message it was made on, the bytes it
\* wrote or read, what it returned and the message a read produced.
Codec(op, message, ret) ==
    [op |-> op, message |-> message, ret |-> ret, bytes |-> <<>>, n |-> 0,
     decoded |-> None, wire |-> NoWire, args |-> NoArgs]
NoCodec == Codec("new", new_with_xid(0), "Ok")

(***************************************************************************)
(* The run loop: `loop { match self.dhcp_state { ... => handler?, } }`.    *)
(* A step is one handler call; an Err (or a panic) ends run.               *)
(***************************************************************************)
\* The header of a received message: its xid and DhcpMessageType.
Digest(recv) ==
    IF recv.kind = "Message"
    THEN Some([xid |-> unwrap(recv.msg).xid, type |-> unwrap(recv.msg).type])
    ELSE None

Event(name, arg, recv, out) ==
    [handler |-> name, arg |-> arg, kind |-> recv.kind, msg |-> Digest(recv),
     ret |-> out.ret, slept |-> out.slept, sent |-> out.sent,
     pre_state |-> dhcp_state]

NoEvent ==
    [handler |-> "new", arg |-> "-", kind |-> "NoRecv", msg |-> None,
     ret |-> "Ok", slept |-> None, sent |-> None, pre_state |-> "Init"]

Apply(name, arg, recv, out) ==
    /\ UNCHANGED <<codec, hardware_addr, server, interface, storage>>
    /\ dhcp_state' = out.state
    /\ client_state' = out.cs
    /\ run_result' = IF out.ret = "Ok" THEN "running" ELSE out.ret
    /\ ev' = Event(name, arg, recv, out)
    /\ after_init' =
          IF out.ret = "Ok" /\ out.state = "Init" /\ dhcp_state # "Init"
          THEN "pending"
          ELSE IF is_some(out.sent) /\ after_init = "pending"
          THEN unwrap(out.sent).type
          ELSE after_init

\* cmd::add_ip_address runs for an ACK only: it succeeds or fails.
CmdOutcomes(recv) ==
    IF recv.kind = "Message" /\ unwrap(recv.msg).type = Some("Ack")
    THEN BOOLEAN ELSE {TRUE}

Dispatch(state) == run_result = "running" /\ dhcp_state = state

\* What a receive returns: the oldest queued datagram when there is one,
\* else one of the given outcomes (a datagram arriving during the wait
\* included).
Reads(outcomes) ==
    IF socket # <<>>
    THEN {[kind |-> "Message", msg |-> Some(Head(socket))]}
    ELSE outcomes

Dequeue == socket' = IF socket # <<>> THEN Tail(socket) ELSE socket

\* A reply reaches the socket while handle_bound sleeps: nothing reads it,
\* it stays queued.
Arrive ==
    /\ Dispatch("Bound")
    /\ Len(socket) < MaxQueue
    /\ \E m \in BoundArrivals : socket' = Append(socket, m)
    /\ UNCHANGED <<dhcp_state, client_state, run_result, codec, hardware_addr,
                   server, interface, storage, ev, after_init>>

HandleInit ==
    /\ Dispatch("Init")
    /\ UNCHANGED socket
    /\ \E wait \in InitWaits :
          Apply("Init", "-", NoRecv, handle_init(dhcp_state, client_state, wait))

HandleInitReboot ==
    /\ Dispatch("InitReboot")
    /\ UNCHANGED socket
    /\ Apply("InitReboot", "-", NoRecv, handle_init_reboot(dhcp_state, client_state))

HandleSelecting ==
    /\ Dispatch("Selecting")
    /\ UNCHANGED socket
    /\ \E send_ok \in BOOLEAN :
          Apply("Selecting", "-", NoRecv,
                handle_selecting(dhcp_state, client_state, send_ok))

HandleSelectingSent ==
    /\ Dispatch("SelectingSent")
    /\ Dequeue
    /\ \E recv \in Reads(RecvTimeoutOutcomes) :
          Apply("SelectingSent", "-", recv,
                handle_selecting_sent(dhcp_state, client_state, recv))

HandleRebooting ==
    /\ Dispatch("Rebooting")
    /\ UNCHANGED socket
    /\ Apply("Rebooting", "-", NoRecv, handle_rebooting(dhcp_state, client_state))

HandleRequesting ==
    /\ Dispatch("Requesting")
    /\ UNCHANGED socket
    /\ \E send_ok \in BOOLEAN :
          Apply("Requesting", "-", NoRecv,
                handle_requesting(dhcp_state, client_state, send_ok))

HandleRequestingSent ==
    /\ Dispatch("RequestingSent")
    /\ Dequeue
    /\ \E recv \in Reads(RecvTimeoutOutcomes) : \E cmd_ok \in CmdOutcomes(recv) :
          Apply("RequestingSent", IF cmd_ok THEN "-" ELSE "cmd_fails", recv,
                handle_requesting_sent(dhcp_state, client_state, recv, cmd_ok))

HandleRebinding ==
    /\ Dispatch("Rebinding")
    /\ UNCHANGED socket
    /\ \E send_ok \in BOOLEAN :
          Apply("Rebinding", "-", NoRecv,
                handle_rebinding(dhcp_state, client_state, send_ok))

HandleRebindingSent ==
    /\ Dispatch("RebindingSent")
    /\ Dequeue
    /\ \E recv \in Reads(RecvOutcomes) : \E cmd_ok \in CmdOutcomes(recv) :
          Apply("RebindingSent", IF cmd_ok THEN "-" ELSE "cmd_fails", recv,
                handle_rebinding_sent(dhcp_state, client_state, recv, cmd_ok))

HandleBound ==
    /\ Dispatch("Bound")
    /\ UNCHANGED socket
    /\ Apply("Bound", "-", NoRecv, handle_bound(dhcp_state, client_state))

HandleRenewing ==
    /\ Dispatch("Renewing")
    /\ UNCHANGED socket
    /\ \E random_xid \in Xids, send_ok \in BOOLEAN :
          Apply("Renewing", "-", NoRecv,
                handle_renewing(dhcp_state, client_state, random_xid, send_ok))

HandleRenewingSent ==
    /\ Dispatch("RenewingSent")
    /\ Dequeue
    /\ \E recv \in Reads(RecvOutcomes) : \E cmd_ok \in CmdOutcomes(recv) :
          Apply("RenewingSent", IF cmd_ok THEN "-" ELSE "cmd_fails", recv,
                handle_renewing_sent(dhcp_state, client_state, recv, cmd_ok))

\* ClientBuilder::build: a new client is in Init with the default state.
Init ==
    /\ dhcp_state = "Init"
    /\ client_state = DefaultClientState
    /\ run_result = "running"
    /\ socket = <<>>
    /\ codec = NoCodec
    /\ hardware_addr = NoHaddr
    /\ server = NoServer
    /\ interface = NoInterface
    /\ storage = NoStorage
    /\ ev = NoEvent
    /\ after_init = "pending"

\* The handlers run can dispatch to from a new client.  The four others
\* (InitReboot, Rebooting, Rebinding, RebindingSent) are never dispatched
\* to: see NeverDispatched.
Next ==
    \/ HandleInit
    \/ HandleSelecting
    \/ HandleSelectingSent
    \/ HandleRequesting
    \/ HandleRequestingSent
    \/ HandleBound
    \/ HandleRenewing
    \/ HandleRenewingSent
    \/ Arrive

Spec == Init /\ [][Next]_vars

\* In every run from a new client the DHCP state stays clear of the states
\* whose handlers Next leaves out.
NeverDispatched ==
    dhcp_state \notin {"InitReboot", "Rebooting", "Rebinding", "RebindingSent"}

(***************************************************************************)
(* The handlers as units: each handler called on a client in any DHCP      *)
(* state, either new or holding a lease with any timers left, its socket   *)
(* queue empty: what a handler reads is what arrives while it waits.       *)
(***************************************************************************)
LeasedClientStates ==
    {[server_identifier |-> sid, offered_ip_address |-> Some(1),
      offered_lease_time |-> Some(3600), rebinding_time |-> Some(3150),
      renewal_time |-> Some(1800), transaction_id |-> xid,
      rebinding_time_left |-> left, renewal_time_left |-> left] :
        sid \in Opt(ServerAddrs), xid \in Xids, left \in Opt(TimeLeftValues)}

InitHandlers ==
    /\ dhcp_state \in DhcpState
    /\ client_state \in LeasedClientStates \cup {DefaultClientState}
    /\ run_result = "running"
    /\ socket = <<>>
    /\ codec = NoCodec
    /\ hardware_addr = NoHaddr
    /\ server = NoServer
    /\ interface = NoInterface
    /\ storage = NoStorage
    /\ ev = [NoEvent EXCEPT !.pre_state = dhcp_state]
    /\ after_init = IF dhcp_state \in {"Init", "Selecting"}
                    THEN "pending" ELSE "untracked"

NextHandlers ==
    \/ HandleInit
    \/ HandleInitReboot
    \/ HandleSelecting
    \/ HandleSelectingSent
    \/ HandleRebooting
    \/ HandleRequesting
    \/ HandleRequestingSent
    \/ HandleRebinding
    \/ HandleRebindingSent
    \/ HandleBound
    \/ HandleRenewing
    \/ HandleRenewingSent

SpecHandlers == InitHandlers /\ [][NextHandlers]_vars

(***************************************************************************)
(* transition_to as a unit: called with any target in any DHCP state.      *)
(***************************************************************************)
CallTransitionTo(state) ==
    /\ run_result = "running"
    /\ UNCHANGED socket
    /\ Apply("transition_to", state, NoRecv,
             Transition(dhcp_state, client_state, state, None, None))

InitTransition ==
    /\ dhcp_state \in DhcpState
    /\ client_state \in {DefaultClientState} \cup LeasedClientStates
    /\ run_result = "running"
    /\ socket = <<>>
    /\ codec = NoCodec
    /\ hardware_addr = NoHaddr
    /\ server = NoServer
    /\ interface = NoInterface
    /\ storage = NoStorage
    /\ ev = [NoEvent EXCEPT !.pre_state = dhcp_state]
    /\ after_init = "untracked"

NextTransition == \E state \in DhcpState : CallTransitionTo(state)

SpecTransition == InitTransition /\ [][NextTransition]_vars

(***************************************************************************)
(* The claims.                                                             *)
(***************************************************************************)
Running == run_result = "running"
SentStates == {"SelectingSent", "RequestingSent", "RenewingSent", "RebindingSent"}
ReplyStates == {"RequestingSent", "RenewingSent", "RebindingSent"}

\* The sinks the specification enumerates for each source state.
EnumeratedSinks(s) ==
    CASE s = "Init" -> {"Selecting"}
      [] s = "Selecting" -> {"SelectingSent"}
      [] s = "SelectingSent" -> {"Selecting", "Requesting", "Init"}
      [] s = "Requesting" -> {"RequestingSent"}
      [] s = "RequestingSent" -> {"Init", "Requesting", "Bound"}
      [] s = "Bound" -> {"Bound", "Renewing"}
      [] s = "Renewing" -> {"RenewingSent"}
      [] s = "RenewingSent" -> {"Init", "Renewing", "Rebinding", "Bound"}
      [] s = "Rebinding" -> {"RebindingSent"}
      [] s = "RebindingSent" -> {"Init", "Bound"}
      [] s = "InitReboot" -> {"Init", "InitReboot", "Bound"}
      [] s = "Rebooting" -> {"Init", "InitReboot", "Bound"}

\* C1: for every DHCP state s, transition_to(s') called in s returns Ok
\* exactly for the sinks s' the specification enumerates for s, and fails
\* with the illegal-transition error for every other pair.
C1_TransitionsAsEnumerated ==
    ev.handler = "transition_to" =>
        IF ev.arg \in EnumeratedSinks(ev.pre_state)
        THEN ev.ret = "Ok" /\ dhcp_state = ev.arg
        ELSE ev.ret = "DhcpStateError"

\* C2: transition_to is total: in every state and for every target it
\* returns Ok or a DhcpStateError, it never panics.
C2_TransitionTotal ==
    ev.handler = "transition_to" => ev.ret \in {"Ok", "DhcpStateError"}

\* C3: when the read times out in SelectingSent the client moves to Init
\* and run keeps looping.
C3_SelectingSentTimeoutToInit ==
    (ev.handler = "SelectingSent" /\ ev.kind = "Timeout") =>
        (dhcp_state = "Init" /\ Running)

\* The handler run dispatches to in a *Sent state, given what the receive
\* produced and whether the `ip addr add` command of an ACK succeeds.
sent_handler(st, cs, recv, cmd_ok) ==
    CASE st = "SelectingSent" -> handle_selecting_sent(st, cs, recv)
      [] st = "RequestingSent" -> handle_requesting_sent(st, cs, recv, cmd_ok)
      [] st = "RebindingSent" -> handle_rebinding_sent(st, cs, recv, cmd_ok)
      [] st = "RenewingSent" -> handle_renewing_sent(st, cs, recv, cmd_ok)

Received(m) == [kind |-> "Message", msg |-> Some(m)]

\* The last handler call received a message with the client's xid and the
\* given DhcpMessageType (no *Sent handler changes the xid).
Matched(ty) ==
    /\ is_some(ev.msg)
    /\ unwrap(ev.msg).xid = client_state.transaction_id
    /\ unwrap(ev.msg).type = Some(ty)

Mismatched(st, cs, m) ==
    \/ m.xid # cs.transaction_id
    \/ st = "SelectingSent" /\ m.type # Some("Offer")

\* C4: in every *Sent state a mismatched message (its xid differs from the
\* client's, or in SelectingSent its type is absent or not Offer) is
\* discarded: the handler returns Ok, the DHCP state stays and no field of
\* ClientState changes.
C4_MismatchedDiscarded ==
    (Running /\ dhcp_state \in SentStates) =>
        \A m \in Messages : \A cmd_ok \in BOOLEAN :
            Mismatched(dhcp_state, client_state, m) =>
                LET out == sent_handler(dhcp_state, client_state, Received(m), cmd_ok)
                IN  /\ out.ret = "Ok"
                    /\ out.state = dhcp_state
                    /\ out.cs = client_state

C4_Witness ==
    /\ ev.handler = "RebindingSent"
    /\ is_some(ev.msg)
    /\ unwrap(ev.msg).xid # client_state.transaction_id
    /\ dhcp_state = "RebindingSent"
    /\ Running

C6_RequestingSentReplies ==
    (ev.handler = "RequestingSent" /\ ev.arg # "cmd_fails") =>
        /\ (ev.kind = "Timeout" \/ Matched("Nak")) =>
                (dhcp_state = "Init" /\ Running)
        /\ Matched("Ack") => (dhcp_state = "Bound" /\ Running)
        /\ (ev.kind = "Message" /\ ~Matched("Nak") /\ ~Matched("Ack")) =>
                (dhcp_state = "RequestingSent" /\ Running)

C6_Witness ==
    /\ ev.handler = "RequestingSent"
    /\ Matched("Nak")
    /\ dhcp_state = "Init"

\* C7: whenever the client enters Bound from RequestingSent, RenewingSent
\* or RebindingSent, renewal_time and rebinding_time are set and
\* renewal_time <= rebinding_time <= offered_lease_time.
C7_BoundTimersOrdered ==
    (ev.handler \in ReplyStates /\ dhcp_state = "Bound") =>
        /\ is_some(client_state.renewal_time)
        /\ is_some(client_state.rebinding_time)
        /\ is_some(client_state.offered_lease_time)
        /\ unwrap(client_state.renewal_time) <= unwrap(client_state.rebinding_time)
        /\ unwrap(client_state.rebinding_time) <= unwrap(client_state.offered_lease_time)

\* t is floor(num/den * lease)
IsFloorOf(t, num, den, lease) ==
    den * t <= num * lease /\ num * lease < den * (t + 1)

\* C8: an accepted ACK without option 58 (59) makes the client enter Bound
\* with renewal_time = floor(0.5 * offered_lease_time) (rebinding_time =
\* floor(0.875 * offered_lease_time)), 1800 and 3150 for a lease of 3600;
\* an option the ACK carries gives the value instead.
C8_DefaultTimers ==
    (Running /\ dhcp_state \in ReplyStates) =>
        \A m \in Acks : \A cmd_ok \in BOOLEAN :
            LET out == sent_handler(dhcp_state, client_state, Received(m), cmd_ok)
                lease == unwrap(client_state.offered_lease_time)
            IN  out.state = "Bound" =>
                    /\ IF is_some(m.opt58)
                       THEN out.cs.renewal_time = m.opt58
                       ELSE /\ is_some(out.cs.renewal_time)
                            /\ IsFloorOf(unwrap(out.cs.renewal_time), 1, 2, lease)
                            /\ lease = 3600 => out.cs.renewal_time = Some(1800)
                    /\ IF is_some(m.opt59)
                       THEN out.cs.rebinding_time = m.opt59
                       ELSE /\ is_some(out.cs.rebinding_time)
                            /\ IsFloorOf(unwrap(out.cs.rebinding_time), 7, 8, lease)
                            /\ lease = 3600 => out.cs.rebinding_time = Some(3150)

C8_Witness ==
    /\ ev.handler = "RequestingSent"
    /\ Matched("Ack")
    /\ dhcp_state = "Bound"
    /\ client_state.offered_lease_time = Some(3600)
    /\ client_state.renewal_time = Some(1800)
    /\ client_state.rebinding_time = Some(3150)

\* C9: a NAK with the client's xid in RequestingSent, RenewingSent or
\* RebindingSent returns the client to Init; a wait without reply in
\* RenewingSent or RebindingSent is followed by a retransmission (Renewing,
\* Rebinding) or, once the retries are exhausted, by Init, never by the end
\* of run; and the first message sent after Init is entered is a DISCOVER.
C9_NakOrExhaustionRestarts ==
    /\ (ev.handler \in ReplyStates /\ Matched("Nak")) =>
            (dhcp_state = "Init" /\ Running)
    /\ (ev.handler \in {"RenewingSent", "RebindingSent"} /\ ev.kind = "WouldBlock") =>
            (Running /\ dhcp_state \in {"Init", "Renewing", "Rebinding"})
    /\ after_init \in {"pending", "Discover", "untracked"}

\* C10: in RenewingSent with no reply, the client moves to Rebinding when
\* renewal_time_left < 2 * MINIMAL_RETRANS_DURATION_SECS; otherwise
\* renewal_time_left is halved, the client sleeps the halved amount and
\* moves back to Renewing.
C10_RenewingSentNoReply ==
    (ev.handler = "RenewingSent" /\ ev.kind = "WouldBlock") =>
        /\ Running
        /\ is_some(client_state.renewal_time_left)
        /\ LET left == unwrap(client_state.renewal_time_left)
           IN  \/ /\ dhcp_state = "Rebinding"
                  /\ left < 2 * MINIMAL_RETRANS_DURATION_SECS
               \/ /\ dhcp_state = "Renewing"
                  /\ left >= MINIMAL_RETRANS_DURATION_SECS
                  /\ ev.slept = Some(left)

TimedOut == [kind |-> "Timeout", msg |-> None]
QuietRecvOutcomes == {[kind |-> k, msg |-> None] : k \in {"Error", "WouldBlock"}}

TimeoutSelectingSent ==
    /\ Dispatch("SelectingSent")
    /\ UNCHANGED socket
    /\ Apply("SelectingSent", "-", TimedOut,
             handle_selecting_sent(dhcp_state, client_state, TimedOut))

TimeoutRequestingSent ==
    /\ Dispatch("RequestingSent")
    /\ UNCHANGED socket
    /\ Apply("RequestingSent", "-", TimedOut,
             handle_requesting_sent(dhcp_state, client_state, TimedOut, TRUE))

\* readable() resolves although no datagram is queued, or the socket fails.
QuietWakeup ==
    /\ Running
    /\ UNCHANGED socket
    /\ dhcp_state \in SentStates
    /\ \E recv \in QuietRecvOutcomes :
          Apply(dhcp_state, "-", recv,
                sent_handler(dhcp_state, client_state, recv, TRUE))

\* The handlers that do not read the socket: they sleep a finite time or send.
HandleWithoutRecv ==
    \/ HandleInit
    \/ HandleInitReboot
    \/ HandleSelecting
    \/ HandleRebooting
    \/ HandleRequesting
    \/ HandleRebinding
    \/ HandleBound
    \/ HandleRenewing

NextQuiet ==
    \/ HandleWithoutRecv
    \/ TimeoutSelectingSent
    \/ TimeoutRequestingSent
    \/ QuietWakeup

SpecQuiet ==
    /\ InitHandlers
    /\ [][NextQuiet]_vars
    /\ WF_vars(HandleWithoutRecv)
    /\ WF_vars(TimeoutSelectingSent)
    /\ WF_vars(TimeoutRequestingSent)

\* C12: every wait is bounded: a client waiting in SelectingSent,
\* RequestingSent, RenewingSent or RebindingSent on a network where no
\* datagram arrives eventually stops waiting in that state (it moves on, or
\* run returns).
C12_WaitsBounded ==
    \A s \in SentStates :
        (Running /\ dhcp_state = s) ~> ~(Running /\ dhcp_state = s)

\* C13: a reply that arrives while the client is in Bound is discarded: its
\* arrival changes neither the DHCP state nor ClientState, and when it is
\* read from the socket in RenewingSent the client stays in RenewingSent
\* with ClientState unchanged, whatever xid handle_renewing picked.
C13_BoundArrivalsDiscarded ==
    [][/\ (dhcp_state = "Bound" /\ Len(socket') > Len(socket)) =>
            /\ dhcp_state' = "Bound"
            /\ client_state' = client_state
            /\ run_result' = run_result
       /\ (dhcp_state = "RenewingSent" /\ socket # <<>> /\ socket' = Tail(socket)) =>
            /\ dhcp_state' = "RenewingSent"
            /\ client_state' = client_state
            /\ run_result' = "running"]_vars

\* C14: every message handle_renewing sends is a REQUEST unicast to the
\* server of the lease: its UDP destination is a server address, never the
\* broadcast address.
C14_RenewingUnicast ==
    (ev.handler = "Renewing" /\ is_some(ev.sent)) =>
        /\ unwrap(ev.sent).type = "Request"
        /\ unwrap(ev.sent).dest # BROADCAST
        /\ unwrap(ev.sent).dest \in ServerAddrs

(***************************************************************************)
(* The codec as a unit: a new Message, options added to it one by one.     *)
(***************************************************************************)
ClientIdle ==
    UNCHANGED <<dhcp_state, client_state, run_result, socket, interface,
                storage, ev, after_init>>

ClientInit ==
    /\ dhcp_state = "Init"
    /\ client_state = DefaultClientState
    /\ run_result = "running"
    /\ socket = <<>>
    /\ interface = NoInterface
    /\ storage = NoStorage
    /\ ev = NoEvent
    /\ after_init = "pending"

CodecIdle == ClientIdle /\ UNCHANGED <<hardware_addr, server>>

AddOption ==
    /\ Len(codec.message.options) < MaxOptions
    /\ \E option \in CodecOptions :
          LET r == add_option(codec.message, option)
          IN  codec' = Codec("add_option", r.message, r.ret)
    /\ CodecIdle

BuildOps == {"new", "add_option", "set_hardware_address"}

SetHardwareAddress ==
    /\ codec.op \in BuildOps
    /\ codec.message.chaddr.addr = <<>>
    /\ \E haddr \in HardwareAddrs :
          codec' = Codec("set_hardware_address",
                         set_hardware_address(codec.message, haddr), "Ok")
    /\ CodecIdle

\* message.write::<BigEndian>(&mut buf) on a fresh WriteBuffer
Write ==
    /\ codec.op \in BuildOps
    /\ LET w == Message_write(codec.message)
       IN  codec' = [codec EXCEPT !.op = "write", !.ret = w.ret,
                                  !.bytes = w.bytes, !.n = w.n]
    /\ CodecIdle

\* Message::read::<BigEndian> on the bytes just written
Read ==
    /\ codec.op = "write"
    /\ codec.ret = "Ok"
    /\ LET r == Message_read(codec.bytes)
       IN  codec' = [codec EXCEPT
                        !.op = "read", !.ret = r.ret,
                        !.decoded = IF r.ret = "Ok" THEN Some(r.val) ELSE None]
    /\ CodecIdle

\* The messages the client builds: builder.make_request_message(..) and
\* builder.make_discover_message(..) in the handlers.
MakeRequestMessage ==
    /\ codec.op = "new"
    /\ \E self \in Builders, destination \in ServerAddrs \cup {BROADCAST},
          offered_addr \in IpAddrs, offered_lease_time \in LeaseTimes :
          LET r == MessageBuilder_make_request_message(
                       self, codec.message.header.xid, destination,
                       offered_addr, offered_lease_time)
          IN  codec' = [Codec("make_request_message", r.message, r.ret)
                           EXCEPT !.args = Args(self, Some(destination),
                                                Some(offered_addr),
                                                Some(offered_lease_time))]
    /\ CodecIdle

MakeDiscoverMessage ==
    /\ codec.op = "new"
    /\ \E self \in Builders, destination \in Opt(ServerAddrs),
          requested_addr \in Opt(IpAddrs),
          requested_lease_time \in Opt(LeaseTimes) :
          LET r == MessageBuilder_make_discover_message(
                       self, codec.message.header.xid, destination,
                       requested_addr, requested_lease_time)
          IN  codec' = [Codec("make_discover_message", r.message, r.ret)
                           EXCEPT !.args = Args(self, destination, requested_addr,
                                                requested_lease_time)]
    /\ CodecIdle

\* Client::send_message: the message written to a new WriteBuffer, whose
\* bytes are the datagram handed to send_to.
SendMessage ==
    /\ codec.op \in {"make_request_message", "make_discover_message"}
    /\ codec.ret = "Ok"
    /\ LET w == Message_write(codec.message)
       IN  codec' = [codec EXCEPT !.op = "send_message", !.ret = w.ret,
                                  !.bytes = w.bytes]
    /\ CodecIdle

\* Client::recv_message: the datagram try_recv_from returned, read with
\* Message::read.
RecvMessage ==
    /\ codec.op = "new"
    /\ \E wire \in Wires :
          LET b == Datagram(codec.message.header.xid, Area(wire))
              r == Message_read(b)
          IN  codec' = [codec EXCEPT
                           !.op = "recv_message", !.ret = r.ret, !.bytes = b,
                           !.wire = wire,
                           !.decoded = IF r.ret = "Ok" THEN Some(r.val) ELSE None]
    /\ CodecIdle

InitCodec ==
    /\ ClientInit
    /\ hardware_addr = NoHaddr
    /\ server = NoServer
    /\ \E xid \in CodecXids, opcode \in {"BootRequest", "BootReply"} :
          codec = Codec("new",
                        [new_with_xid(xid) EXCEPT !.header.opcode = opcode],
                        "Ok")

NextCodec ==
    \/ AddOption
    \/ SetHardwareAddress
    \/ Write
    \/ Read
    \/ MakeRequestMessage
    \/ MakeDiscoverMessage
    \/ SendMessage
    \/ RecvMessage

SpecCodec == InitCodec /\ [][NextCodec]_vars

Tags(options) == {options[i].header.tag : i \in 1..Len(options)}
NoDuplicateTag(options) ==
    \A i, j \in 1..Len(options) :
        options[i].header.tag = options[j].header.tag => i = j

\* C15: a Message built by add_option calls never holds two options with
\* the same tag: add_option of a tag already present fails with
\* DuplicateOption and leaves the list as it was, add_option of any other
\* tag appends the option at the end.
C15_AddOptionRejectsDuplicates ==
    /\ NoDuplicateTag(codec.message.options)
    /\ \A option \in CodecOptions :
          LET r == add_option(codec.message, option)
          IN  IF option.header.tag \in Tags(codec.message.options)
              THEN /\ r.ret = "DuplicateOptionError"
                   /\ r.message = codec.message
              ELSE /\ r.ret = "Ok"
                   /\ r.message.options = Append(codec.message.options, option)
                   /\ [r.message EXCEPT !.options = codec.message.options]
                        = codec.message

C15_Witness ==
    /\ codec.op = "add_option"
    /\ codec.ret = "DuplicateOptionError"
    /\ Len(codec.message.options) = 2
    /\ \E i \in 1..2 : codec.message.options[i].header.tag = 53

\* C16: decoding the bytes produced by encoding a message gives the message
\* back, options in the same order.
C16_RoundTrip ==
    codec.op = "read" =>
        /\ codec.ret = "Ok"
        /\ codec.decoded = Some(codec.message)

\* C17: every datagram send_message hands to the socket is at least 300
\* octets long.
C17_MinimumLength ==
    (codec.op = "send_message" /\ codec.ret = "Ok") =>
        Len(codec.bytes) >= MIN_MSG_SIZE

\* The bytes of a successful Message::write, by Write or by send_message.
Encoded == codec.op \in {"write", "send_message"} /\ codec.ret = "Ok"

\* C18: the encoded message has the RFC 2131 layout: octet 0 the opcode,
\* octet 1 the htype (1 for Ethernet), octet 2 hlen, octet 3 hops, octets 4-7
\* the xid big-endian, and the magic cookie at octets 236-239 (sequence
\* positions 237..240), right before the options.
C18_FixedLayout ==
    Encoded =>
        /\ Len(codec.bytes) >= 240
        /\ codec.bytes[1] = (IF codec.message.header.opcode = "BootRequest"
                             THEN 1 ELSE 2)
        /\ codec.bytes[2] = 1
        /\ codec.bytes[3] = codec.message.header.hlen
        /\ codec.bytes[4] = codec.message.header.hops
        /\ SubSeq(codec.bytes, 5, 8) = be(codec.message.header.xid, 4)
        /\ SubSeq(codec.bytes, 237, 240) = MAGIC_COOKIE_ARR

WellFormed(wire) ==
    \A i \in 1..Len(wire.options) : wire.options[i] \in WellFormedTlvs

\* C19: what follows the first End of a datagram makes no difference: the
\* datagram decodes as the datagram cut after that End does, without error
\* and to the same message.
C19_DecodingStopsAtEnd ==
    (codec.op = "recv_message" /\ WellFormed(codec.wire)) =>
        LET cut == Message_read(Datagram(codec.message.header.xid,
                                         UpToEnd(codec.wire)))
        IN  /\ cut.ret = "Ok"
            /\ codec.ret = "Ok"
            /\ codec.decoded = Some(cut.val)

\* C20: an emitted option other than Pad and End carries a len octet equal
\* to the number of data octets that follow it, and a received option whose
\* declared len is not the one its tag requires makes the decode fail.
C20_LenMatchesSize ==
    /\ Encoded =>
          \A i \in 1..Len(codec.message.options) :
              LET option == codec.message.options[i]
              IN  option.header.tag \notin {0, 255} =>
                      /\ option.header.len = size(option.data)
                      /\ OptionHeader_write(option.header)[
                             Len(OptionHeader_write(option.header))]
                           = Len(OptionData_write(option.data))
    /\ (codec.op = "recv_message"
            /\ \E i \in 1..Len(codec.wire.options) :
                  codec.wire.options[i] \in MismatchedTlvs)
          => codec.ret # "Ok"

\* A datagram received whose first option has an unknown tag.
UnknownFirst ==
    /\ codec.op = "recv_message"
    /\ codec.wire.options # <<>>
    /\ codec.wire.options[1] \in UnknownTlvs

\* C21: a received option whose tag is unassigned decodes to
\* UnassignedOrRemoved(raw byte) when the byte is in the UnassignedOrRemoved
\* set, and writing the decoded option gives the raw byte back; a byte
\* outside the set makes the decode fail with InvalidTag.
C21_UnknownTags ==
    UnknownFirst =>
        LET o == codec.wire.options[1]
            r == DhcpOption_read(Tlv_bytes(o))
        IN  IF o.tag \in UnassignedOrRemovedTags
            THEN /\ r.ret = "Ok"
                 /\ r.val.header.tag = o.tag
                 /\ DhcpOption_write(r.val) = Tlv_bytes(o)
            ELSE /\ r.ret = "InvalidTag"
                 /\ codec.ret = "InvalidTag"

(***************************************************************************)
(* HardwareAddr (types/addr.rs).  A String is the sequence of its          *)
(* characters.                                                             *)
(***************************************************************************)
\* HardwareAddr::default
HardwareAddr_default == [addr |-> <<>>, padding |-> Zeros(16)]

\* char::to_digit(16); -1 for a character that is no hex digit.
to_digit(c) ==
    CASE c = "0" -> 0 [] c = "1" -> 1 [] c = "2" -> 2 [] c = "3" -> 3
      [] c = "4" -> 4 [] c = "5" -> 5 [] c = "6" -> 6 [] c = "7" -> 7
      [] c = "8" -> 8 [] c = "9" -> 9
      [] c \in {"A", "a"} -> 10 [] c \in {"B", "b"} -> 11
      [] c \in {"C", "c"} -> 12 [] c \in {"D", "d"} -> 13
      [] c \in {"E", "e"} -> 14 [] c \in {"F", "f"} -> 15
      [] OTHER -> -1

\* u8::from_str_radix(src, 16): [ok, val].  An empty string, a lone sign, a
\* character that is no hex digit and a value above 255 are errors; one
\* leading "+" is accepted.
RECURSIVE digits_value(_, _)
digits_value(src, acc) ==
    IF src = <<>> THEN [ok |-> TRUE, val |-> acc]
    ELSE IF to_digit(Head(src)) < 0 \/ acc * 16 + to_digit(Head(src)) > 255
         THEN [ok |-> FALSE, val |-> 0]
    ELSE digits_value(Tail(src), acc * 16 + to_digit(Head(src)))

from_str_radix(src) ==
    LET digits == IF src # <<>> /\ Head(src) = "+" THEN Tail(src) ELSE src
    IN  IF digits = <<>> THEN [ok |-> FALSE, val |-> 0]
        ELSE digits_value(digits, 0)

\* str::trim, for the one white-space character of the model
RECURSIVE trim_start(_)
trim_start(input) ==
    IF input # <<>> /\ Head(input) = " " THEN trim_start(Tail(input)) ELSE input
RECURSIVE trim_end(_)
trim_end(input) ==
    IF input # <<>> /\ input[Len(input)] = " "
    THEN trim_end(SubSeq(input, 1, Len(input) - 1)) ELSE input
trim(input) == trim_end(trim_start(input))

\* str::split(':'): the groups between the colons, empty ones included.
RECURSIVE split(_, _)
split(input, group) ==
    IF input = <<>> THEN <<group>>
    ELSE IF Head(input) = ":" THEN <<group>> \o split(Tail(input), <<>>)
    ELSE split(Tail(input), Append(group, Head(input)))

\* HardwareAddr::try_from(String): [ret, value]
HardwareAddr_try_from(input) ==
    IF \A i \in 1..Len(input) : input[i] # ":"
    THEN [ret |-> "InvalidSeparator", value |-> HardwareAddr_default]
    ELSE LET bytes == split(trim(input), <<>>)
             parsed == [i \in 1..Len(bytes) |-> from_str_radix(bytes[i])]
         IN  IF Len(bytes) > 16
             THEN [ret |-> "InvalidLength", value |-> HardwareAddr_default]
             ELSE IF \E i \in 1..Len(bytes) : ~parsed[i].ok
             THEN [ret |-> "InvalidByte", value |-> HardwareAddr_default]
             ELSE [ret |-> "Ok",
                   value |-> HardwareAddr([i \in 1..Len(bytes) |-> parsed[i].val])]

\* The strings parsed: every string of at most MaxStrLen characters of a
\* small alphabet, and some longer ones.
RECURSIVE Repeat(_, _)
Repeat(str, n) == IF n = 0 THEN <<>> ELSE str \o Repeat(str, n - 1)
Alphabet == {"1", "F", "g", ":", " "}
ExampleAddr ==
    <<"D", "E", ":", "A", "D", ":", "B", "E", ":", "E", "F", ":", "1", "2",
      ":", "3", "4">>
LongStrings ==
    {ExampleAddr,
     <<" ">> \o ExampleAddr \o <<" ">>,
     <<"D", "E", "A", "D">>,
     <<"+", "1", ":", "0", "0", "2">>,
     <<"-", "1", ":", "2">>,
     <<"1", "F", "F", ":", "0">>,
     <<"0">> \o Repeat(<<":", "0">>, 15),
     <<"0">> \o Repeat(<<":", "0">>, 16),
     <<"0">> \o Repeat(<<":", "g">>, 16),
     Repeat(<<":">>, 16)}
Strings == SeqsUpTo(Alphabet, MaxStrLen) \cup LongStrings

\* The chaddr fields read: 16 octets, or a buffer that ends before them.
ChaddrFields ==
    {Zeros(16), <<222, 173, 190, 239, 18, 52>> \o Zeros(10),
     [i \in 1..16 |-> i], Zeros(15)}
Hlens == {0, 1, 6, 16, 17, 255}

HardwareAddrIdle ==
    /\ ClientIdle
    /\ UNCHANGED <<codec, server>>

HardwareAddrDefault ==
    /\ hardware_addr' = Haddr("default", <<>>, "Ok", HardwareAddr_default)
    /\ HardwareAddrIdle

HardwareAddrTryFrom ==
    /\ \E input \in Strings :
          LET r == HardwareAddr_try_from(input)
          IN  hardware_addr' = Haddr("try_from", input, r.ret, r.value)
    /\ HardwareAddrIdle

HardwareAddrRead ==
    /\ \E b \in ChaddrFields, hlen \in Hlens :
          LET r == HardwareAddr_read(b, hlen)
          IN  hardware_addr' =
                  Haddr("read", <<hlen>> \o b, r.ret,
                        IF r.ret = "Ok" THEN r.val ELSE HardwareAddr_default)
    /\ HardwareAddrIdle

InitHardwareAddr ==
    /\ ClientInit
    /\ codec = NoCodec
    /\ server = NoServer
    /\ hardware_addr = NoHaddr

NextHardwareAddr ==
    \/ HardwareAddrDefault
    \/ HardwareAddrTryFrom
    \/ HardwareAddrRead

SpecHardwareAddr == InitHardwareAddr /\ [][NextHardwareAddr]_vars

\* The number of groups of a string: its colons plus one.
Groups(input) == Cardinality({i \in 1..Len(input) : input[i] = ":"}) + 1

\* C22: every HardwareAddr constructed has |addr| + |padding| = 16;
\* "DE:AD:BE:EF:12:34" parses to the six octets DE AD BE EF 12 34 and ten
\* padding octets; a string of more than 16 groups fails with InvalidLength
\* and a read with hlen > 16 fails with InvalidData.
C22_HardwareAddrLength ==
    /\ hardware_addr.ret = "Ok" =>
          Len(hardware_addr.value.addr) + Len(hardware_addr.value.padding) = 16
    /\ (hardware_addr.op = "try_from" /\ hardware_addr.input = ExampleAddr) =>
          /\ hardware_addr.ret = "Ok"
          /\ hardware_addr.value.addr = <<222, 173, 190, 239, 18, 52>>
          /\ hardware_addr.value.padding = Zeros(10)
    /\ (hardware_addr.op = "try_from" /\ Groups(hardware_addr.input) > 16) =>
          hardware_addr.ret = "InvalidLength"
    /\ (hardware_addr.op = "read" /\ hardware_addr.input[1] > 16) =>
          hardware_addr.ret = "InvalidData"
    /\ (hardware_addr.op = "read" /\ hardware_addr.ret = "Ok") =>
          /\ Len(hardware_addr.value.addr) = hardware_addr.input[1]
          /\ hardware_addr.value.addr \o hardware_addr.value.padding
               = Tail(hardware_addr.input)

C22_Witness ==
    /\ hardware_addr.op = "try_from"
    /\ hardware_addr.ret = "Ok"
    /\ Len(hardware_addr.value.addr) = 2
    /\ Len(hardware_addr.value.padding) = 14

\* The options of a message that carry a tag, and the payload of the one
\* that does when there is exactly one.
Carrying(message, tag) ==
    {i \in 1..Len(message.options) : message.options[i].header.tag = tag}
Payload(message, tag) ==
    message.options[CHOOSE i \in Carrying(message, tag) : TRUE].data.val
One(message, tag, val) ==
    /\ Cardinality(Carrying(message, tag)) = 1
    /\ Payload(message, tag) = val
Maybe(message, tag, opt) ==
    IF is_some(opt) THEN Cardinality(Carrying(message, tag)) = 1
    ELSE Carrying(message, tag) = {}

\* C23: make_discover_message returns a BootRequest with exactly one
\* DhcpMessageType = Discover, one ServerIdentifier = the destination (the
\* broadcast address when none is given), one ClientIdentifier (the
\* configured identifier, else the hardware address octets), one
\* ParameterRequestList {Router, DomainNameServer, RenewalT1Time,
\* RebindingT2Time} and one MaxDhcpMessageSize; RequestedIpAddr iff an
\* address is given, IpAddrLeaseTime iff a lease time is given; End last.
C23_DiscoverContents ==
    codec.op = "make_discover_message" =>
        LET m == codec.message
            a == codec.args
        IN  /\ codec.ret = "Ok"
            /\ m.header.opcode = "BootRequest"
            /\ One(m, 53, <<1>>)
            /\ One(m, 54, Ipv4Addr(unwrap_or(a.destination, BROADCAST)))
            /\ Cardinality(Carrying(m, 61)) = 1
            /\ Tail(Payload(m, 61))
                 = unwrap_or(a.self.client_identifier,
                             a.self.client_hardware_addr.addr)
            /\ One(m, 55, <<3, 6, 58, 59>>)
            /\ One(m, 57, <<a.self.max_dhcp_message_size>>)
            /\ Maybe(m, 50, a.addr)
            /\ is_some(a.addr) => Payload(m, 50) = Ipv4Addr(unwrap(a.addr))
            /\ Maybe(m, 51, a.lease_time)
            /\ is_some(a.lease_time) => Payload(m, 51) = <<unwrap(a.lease_time)>>
            /\ m.options[Len(m.options)].header.tag = 255
            /\ Cardinality(Carrying(m, 255)) = 1

C23_Witness ==
    /\ codec.op = "make_discover_message"
    /\ codec.ret = "Ok"
    /\ codec.args.destination = None
    /\ is_some(codec.args.addr)
    /\ codec.args.lease_time = None
    /\ codec.args.self.client_identifier = None
    /\ Len(codec.message.options) = 7

\* C24: a builder whose max_dhcp_message_size is below 576 returns
\* InvalidData from make_discover_message and make_request_message, and no
\* message that carries that value in its MaxDhcpMessageSize option.
C24_BuilderRejectsInvalidPayload ==
    (/\ codec.op \in {"make_discover_message", "make_request_message"}
     /\ codec.args.self.max_dhcp_message_size < MINIMUM_LEGAL_MAX_MESSAGE_SIZE)
        => /\ codec.ret = "InvalidData"
           /\ Carrying(codec.message, 57) = {}

\* ------------------------------------------------------------------------
\* Server builder (server/builder.rs).  Percentages are held in thousandths
\* (0.5 is 500), so that the f64 comparisons and products of the source
\* become integer ones.

MaxPools == 2

ONE_HOUR_SECS == 3600

DEFAULT_REBIND_PERCENT == 875

DEFAULT_RENEW_PERCENT == 500

ServerBuilder(rebind_time, rebind_percent, renew_time, renew_percent, calculates_times, lease_time, pools) ==
    [rebind_time |-> rebind_time, rebind_percent |-> rebind_percent,
     renew_time |-> renew_time, renew_percent |-> renew_percent,
     calculates_times |-> calculates_times, lease_time |-> lease_time,
     pools |-> pools]

ServerBuilder_default ==
    ServerBuilder(None, DEFAULT_REBIND_PERCENT, None, DEFAULT_RENEW_PERCENT,
                  FALSE, ONE_HOUR_SECS, <<>>)

ServerBuilder_new == ServerBuilder_default

with_rebind_time(self, time) == [self EXCEPT !.rebind_time = Some(time)]

with_rebind_percent(self, percent) == [self EXCEPT !.rebind_percent = percent]

with_renew_time(self, time) == [self EXCEPT !.renew_time = Some(time)]

with_renew_percent(self, percent) == [self EXCEPT !.renew_percent = percent]

with_calculate_times(self, calc) == [self EXCEPT !.calculates_times = calc]

with_lease_time(self, time) == [self EXCEPT !.lease_time = time]

with_pool(self, name, range) ==
    [self EXCEPT !.pools = Append(self.pools, <<name, range>>)]

is_none(o) == o = None

\* (lease_time as f64 * percent) as u32: the product truncated toward zero.
percent_of(lease_time, percent) == (lease_time * percent) \div 1000

ServerConfig(send_times, rebind_time, renew_time) ==
    [send_times |-> send_times, rebind_time |-> rebind_time,
     renew_time |-> renew_time]

NoConfig == ServerConfig(FALSE, 0, 0)

ServerBuilder_build(self) ==
    LET send_times  == self.calculates_times
                       \/ (is_some(self.rebind_time) /\ is_some(self.renew_time))
        rebind_time == unwrap_or(self.rebind_time,
                                 percent_of(self.lease_time, self.rebind_percent))
        renew_time  == unwrap_or(self.renew_time,
                                 percent_of(self.lease_time, self.renew_percent))
    IN  IF \/ (is_some(self.rebind_time) /\ is_none(self.renew_time))
           \/ (is_none(self.rebind_time) /\ is_some(self.renew_time))
        THEN [ret |-> "InvalidTimes", value |-> NoConfig]
        ELSE IF self.rebind_percent >= self.renew_percent
        THEN [ret |-> "InvalidPercent", value |-> NoConfig]
        ELSE IF self.pools = <<>>
        THEN [ret |-> "InvalidPoolCount", value |-> NoConfig]
        ELSE [ret |-> "Ok",
              value |-> ServerConfig(send_times, rebind_time, renew_time)]

\* The builder under construction, the last call made on it and, after
\* build, what build returned.
Builder(op, builder, ret, value) ==
    [op |-> op, builder |-> builder, ret |-> ret, value |-> value]

Percents == {250, DEFAULT_RENEW_PERCENT, DEFAULT_REBIND_PERCENT}

Times == {1800, 3150}

PoolName == "lan"

PoolRange == "10.0.0.1-10.0.0.9"

ServerIdle ==
    /\ ClientIdle
    /\ UNCHANGED <<codec, hardware_addr>>

Building == server.op \in {"builder", "with"}

ServerBuilderNew ==
    /\ server = NoServer \/ server.op = "build"
    /\ server' = Builder("builder", ServerBuilder_new, "Ok", NoConfig)
    /\ ServerIdle

With(b) == server' = Builder("with", b, "Ok", NoConfig)

WithRebindTime ==
    /\ Building
    /\ \E time \in Times : With(with_rebind_time(server.builder, time))
    /\ ServerIdle

WithRebindPercent ==
    /\ Building
    /\ \E percent \in Percents :
          With(with_rebind_percent(server.builder, percent))
    /\ ServerIdle

WithRenewTime ==
    /\ Building
    /\ \E time \in Times : With(with_renew_time(server.builder, time))
    /\ ServerIdle

WithRenewPercent ==
    /\ Building
    /\ \E percent \in Percents :
          With(with_renew_percent(server.builder, percent))
    /\ ServerIdle

WithCalculateTimes ==
    /\ Building
    /\ \E calc \in BOOLEAN : With(with_calculate_times(server.builder, calc))
    /\ ServerIdle

WithLeaseTime ==
    /\ Building
    /\ \E time \in LeaseTimes : With(with_lease_time(server.builder, time))
    /\ ServerIdle

WithPool ==
    /\ Building
    /\ Len(server.builder.pools) < MaxPools
    /\ With(with_pool(server.builder, PoolName, PoolRange))
    /\ ServerIdle

Build ==
    /\ Building
    /\ LET r == ServerBuilder_build(server.builder)
       IN  server' = Builder("build", server.builder, r.ret, r.value)
    /\ ServerIdle

InitServerBuilder ==
    /\ ClientInit
    /\ codec = NoCodec
    /\ hardware_addr = NoHaddr
    /\ server = NoServer

NextServerBuilder ==
    \/ ServerBuilderNew
    \/ WithRebindTime
    \/ WithRebindPercent
    \/ WithRenewTime
    \/ WithRenewPercent
    \/ WithCalculateTimes
    \/ WithLeaseTime
    \/ WithPool
    \/ Build

SpecServerBuilder == InitServerBuilder /\ [][NextServerBuilder]_vars

ConsistentTimes(b) == is_some(b.rebind_time) <=> is_some(b.renew_time)

DefaultPercents(b) ==
    /\ b.renew_percent = DEFAULT_RENEW_PERCENT
    /\ b.rebind_percent = DEFAULT_REBIND_PERCENT

\* C25: build fails whenever renew_percent >= rebind_percent, does not
\* fail with InvalidPercent when renew_percent < rebind_percent, and a
\* builder with the default percentages, consistent explicit times and at
\* least one pool builds successfully.
C25_BuildChecksPercents ==
    server.op = "build" =>
        LET b == server.builder
        IN  /\ b.renew_percent >= b.rebind_percent => server.ret # "Ok"
            /\ b.renew_percent < b.rebind_percent
                   => server.ret # "InvalidPercent"
            /\ (DefaultPercents(b) /\ ConsistentTimes(b) /\ b.pools # <<>>)
                   => server.ret = "Ok"

\* ------------------------------------------------------------------------
\* Server (server/mod.rs): run receives datagrams and spawns one task per
\* datagram, the task runs handle.

MaxTasks == 1

\* Message::get_message_type on a decoded message: the data of the first
\* option whose tag is DhcpMessageType.
Message_get_message_type(message) ==
    LET at == {i \in 1..Len(message.options) :
                  message.options[i].header.tag = 53}
    IN  IF at = {} THEN None
        ELSE LET first == CHOOSE i \in at : \A j \in at : i <= j
                 data  == message.options[first].data
             IN  IF data.kind = "DhcpMessageType" THEN Some(data.val[1])
                 ELSE None

\* DhcpMessageType::read: the variant of each octet.
DhcpMessageType_name(ty) ==
    CASE ty = 1 -> "Discover"
      [] ty = 2 -> "Offer"
      [] ty = 3 -> "Request"
      [] ty = 4 -> "Decline"
      [] ty = 5 -> "Ack"
      [] ty = 6 -> "Nak"
      [] ty = 7 -> "Release"

\* What one run of handle did: how it ended, what it printed, the
\* datagrams it sent on the session's socket.
Handled(outcome, logged, sent) ==
    [outcome |-> outcome, logged |-> logged, sent |-> sent]

Server_handle_discover(message) == Handled("panic", <<>>, <<>>)

Server_handle_offer(message) == Handled("panic", <<>>, <<>>)

Server_handle_request(message) == Handled("panic", <<>>, <<>>)

Server_handle_decline(message) == Handled("panic", <<>>, <<>>)

Server_handle_ack(message) == Handled("panic", <<>>, <<>>)

Server_handle_nak(message) == Handled("panic", <<>>, <<>>)

Server_handle_release(message) == Handled("panic", <<>>, <<>>)

\* The match of handle on the message type.
dispatch(message_type, message) ==
    CASE message_type = "Discover" -> Server_handle_discover(message)
      [] message_type = "Offer" -> Server_handle_offer(message)
      [] message_type = "Request" -> Server_handle_request(message)
      [] message_type = "Decline" -> Server_handle_decline(message)
      [] message_type = "Ack" -> Server_handle_ack(message)
      [] message_type = "Nak" -> Server_handle_nak(message)
      [] message_type = "Release" -> Server_handle_release(message)

handle(buf) ==
    LET r == Message_read(buf) IN
    IF r.ret = "panic" THEN Handled("panic", <<>>, <<>>)
    ELSE IF r.ret # "Ok"
    THEN Handled("returned", <<"Error while reading DHCP message">>, <<>>)
    ELSE LET message_type == Message_get_message_type(r.val) IN
    IF message_type = None
    THEN Handled("returned", <<"No DHCP message type option">>, <<>>)
    ELSE unwrap({dispatch(DhcpMessageType_name(ty), r.val) :
                    ty \in message_type})

\* The option areas of the datagrams that reach the server: every message
\* type octet 1..8 alone and after a server identifier, two message types,
\* no option at all.
MessageTypeTlvs == {Tlv(53, 1, <<ty>>) : ty \in 1..8}

ServerIdentifierTlv == Tlv(54, 4, <<10, 0, 0, 1>>)

ServerOptions ==
    {<<>>, <<ServerIdentifierTlv>>, <<Tlv(53, 1, <<2>>), Tlv(53, 1, <<1>>)>>}
        \cup {<<o>> : o \in MessageTypeTlvs}
        \cup {<<ServerIdentifierTlv, o>> : o \in MessageTypeTlvs}

\* A datagram shorter than the fixed header.
ShortDatagram == <<2, 1, 6>>

\* The datagrams that reach the server, each named by what it carries: a
\* whole datagram with one of the option areas, or the short one.
Arrival(short, options) == [short |-> short, options |-> options]

Arrivals ==
    {Arrival(TRUE, <<>>)} \cup {Arrival(FALSE, o) : o \in ServerOptions}

ReceivedBuf(a) ==
    IF a.short THEN ShortDatagram
    ELSE Datagram(0, UpToEnd([options |-> a.options, trailer |-> <<>>]))

\* The server, what run returned, the datagrams of the spawned tasks that
\* have not run yet, the datagram of the task that ran last and what it did
\* (datagrams by name).
Server(is_running, run, tasks, buf, handled) ==
    [op |-> "server", is_running |-> is_running, run |-> run,
     tasks |-> tasks, buf |-> buf, handled |-> handled]

NotHandled == Handled("none", <<>>, <<>>)

Server_new == Server(FALSE, "none", <<>>, Arrival(TRUE, <<>>), NotHandled)

ServerNew ==
    /\ server = NoServer
    /\ server' = Server_new
    /\ ServerIdle

\* Server::run up to the bind: AlreadyRunning, or the bind's result.
ServerRun ==
    /\ server # NoServer
    /\ server.run # "listening"
    /\ IF server.is_running
       THEN server' = [server EXCEPT !.run = "AlreadyRunning"]
       ELSE \E bind \in {"listening", "Io"} :
               server' = [server EXCEPT !.is_running = TRUE, !.run = bind]
    /\ ServerIdle

\* One turn of the loop of run: a datagram is received and its task
\* spawned, or readable fails and run returns.
ServerRecv ==
    /\ server # NoServer
    /\ server.run = "listening"
    /\ \/ /\ Len(server.tasks) < MaxTasks
          /\ \E a \in Arrivals :
                server' = [server EXCEPT !.tasks = Append(@, a)]
       \/ server' = [server EXCEPT !.run = "Io", !.tasks = <<>>]
    /\ ServerIdle

RemoveAt(s, i) == SubSeq(s, 1, i - 1) \o SubSeq(s, i + 1, Len(s))

\* A spawned task runs handle on its datagram.
ServerHandle ==
    /\ server # NoServer
    /\ server.run = "listening"
    /\ \E i \in 1..Len(server.tasks) :
          \E buf \in {ReceivedBuf(server.tasks[i])} :
             server' = [server EXCEPT !.tasks = RemoveAt(@, i),
                                      !.buf = server.tasks[i],
                                      !.handled = handle(buf)]
    /\ ServerIdle

InitServer ==
    /\ ClientInit
    /\ codec = NoCodec
    /\ hardware_addr = NoHaddr
    /\ server = NoServer

NextServer ==
    \/ ServerNew
    \/ ServerRun
    \/ ServerRecv
    \/ ServerHandle

SpecServer == InitServer /\ [][NextServer]_vars

\* The message type a handled datagram carries, when it decodes.
HandledType ==
    IF server = NoServer \/ server.handled = NotHandled THEN None
    ELSE LET r == Message_read(ReceivedBuf(server.buf))
         IN  IF r.ret # "Ok" THEN None
             ELSE LET ty == Message_get_message_type(r.val)
                  IN  IF ty = None THEN None
                      ELSE Some(DhcpMessageType_name(unwrap(ty)))

\* C26: a datagram of message type Offer, Ack or Nak that arrives at the
\* server is logged and dropped: its task completes normally and sends no
\* reply.
C26_RepliesAreDropped ==
    HandledType \in {Some("Offer"), Some("Ack"), Some("Nak")} =>
        /\ server.handled.outcome = "returned"
        /\ server.handled.sent = <<>>

\* ------------------------------------------------------------------------
\* Lease store (server/storage.rs): ServerStorage, its callers and the
\* flush task run_flush spawns.

\* StorageKey and its Display: "{hostname}_{hardware_addr}", or the
\* hardware address alone.
StorageKey(hardware_address, hostname) ==
    [hardware_addr |-> hardware_address, hostname |-> hostname]

StorageKey_to_string(key) ==
    IF is_some(key.hostname)
    THEN unwrap(key.hostname) \o "_" \o key.hardware_addr
    ELSE key.hardware_addr

StorageKeys ==
    {StorageKey("00:11:22:33:44:55", None),
     StorageKey("00:11:22:33:44:55", Some("host"))}

KeyStrings == {StorageKey_to_string(key) : key \in StorageKeys}

Lease(hardware_address, ip, lease_time) ==
    [hardware_addr |-> hardware_address, ip_addr |-> ip,
     lease_time |-> lease_time]

Leases ==
    {Lease("00:11:22:33:44:55", ip, ONE_HOUR_SECS) : ip \in IpAddrs}

\* IntoLease::into_lease: the Lease the caller's value stands for.
into_lease(lease) ==
    Lease(lease.hardware_addr, lease.ip_addr, lease.lease_time)

\* HashMap::new, HashMap::insert and HashMap::get on HashMap<String, Lease>.
HashMap_new == [k \in KeyStrings |-> None]

insert(leases, key, lease) == [leases EXCEPT ![key] = Some(lease)]

get(leases, key) == leases[key]

\* serde_json::to_string_pretty of the map: its entries, in no order.
to_string_pretty(leases) ==
    {<<k, unwrap(leases[k])>> : k \in {s \in KeyStrings : is_some(leases[s])}}

\* The lease file: absent, or its content.
NoFile == [exists |-> FALSE, content |-> {}]

FileOf(content) == [exists |-> TRUE, content |-> content]

\* The call a user of the store is in: which, its arguments, where it is
\* ("idle", "lock" waiting for the mutex, "locked" holding it) and what the
\* last call returned.
Caller(op, key, lease, at, ret) ==
    [op |-> op, key |-> key, lease |-> lease, at |-> at, ret |-> ret]

NoKey == StorageKey("00:11:22:33:44:55", None)

NoLease == Lease("00:11:22:33:44:55", 1, ONE_HOUR_SECS)

NoCall == Caller("none", NoKey, NoLease, "idle", None)

\* The task running handle_flush: where it is, its arguments, its output
\* string and the map as it was when it took the lock.
Flusher(pc, changed, output, seen) ==
    [pc |-> pc, changed |-> changed, output |-> output, seen |-> seen]

NoFlusher == Flusher("none", FALSE, {}, HashMap_new)

\* ServerStorage: the map, its mutex ("free", "caller", "flusher"), the
\* changed flag, the lease file, the caller and the flush task; unflushed
\* records that a store has returned and no flush has completed since.
\* written is the output of the last write that succeeded.
ServerStorage(leases, mutex, changed, file, caller, flusher, unflushed, written) ==
    [op |-> "storage", leases |-> leases, mutex |-> mutex,
     changed |-> changed, file |-> file, caller |-> caller,
     flusher |-> flusher, unflushed |-> unflushed, written |-> written]

ServerStorage_new ==
    ServerStorage(HashMap_new, "free", FALSE, NoFile, NoCall, NoFlusher, FALSE,
                  None)

\* A ServerStorage has been constructed.
Stored == server # NoServer

Idle == Stored /\ server.caller.at = "idle"

\* store_lease up to the lock: the commented-out assignment to changed,
\* into_lease and to_string.
StoreLease ==
    /\ Idle
    /\ \E key \in StorageKeys, lease \in Leases :
          server' = [server EXCEPT
                        !.caller = Caller("store", key, into_lease(lease),
                                          "lock", None)]
    /\ ServerIdle

\* retrieve_lease up to the lock.
RetrieveLease ==
    /\ Idle
    /\ \E key \in StorageKeys :
          server' = [server EXCEPT
                        !.caller = Caller("retrieve", key, NoLease, "lock",
                                          None)]
    /\ ServerIdle

\* self.leases.lock() of either call.
CallerLock ==
    /\ Stored
    /\ server.caller.at = "lock"
    /\ server.mutex = "free"
    /\ server' = [server EXCEPT !.mutex = "caller", !.caller.at = "locked"]
    /\ ServerIdle

\* store_lease under the lock: insert, Ok(()), the guard dropped.
StoreInsert ==
    /\ Stored
    /\ server.caller.at = "locked"
    /\ server.caller.op = "store"
    /\ server' = [server EXCEPT
                     !.leases = insert(@, StorageKey_to_string(server.caller.key),
                                       server.caller.lease),
                     !.mutex = "free",
                     !.caller.at = "idle",
                     !.caller.ret = Some("Ok"),
                     !.unflushed = TRUE]
    /\ ServerIdle

\* retrieve_lease under the lock: None, the guard dropped.
RetrieveReturn ==
    /\ Stored
    /\ server.caller.at = "locked"
    /\ server.caller.op = "retrieve"
    /\ server' = [server EXCEPT !.mutex = "free", !.caller.at = "idle",
                                !.caller.ret = None]
    /\ ServerIdle

\* run_flush: the task is spawned with a copy of the changed flag.
RunFlush ==
    /\ Idle
    /\ server.flusher.pc = "none"
    /\ server' = [server EXCEPT
                     !.flusher = Flusher("first_tick", server.changed, {},
                                         HashMap_new)]
    /\ ServerIdle

\* handle_flush: the first tick of the interval.
FlusherFirstTick ==
    /\ Stored
    /\ server.flusher.pc = "first_tick"
    /\ server' = [server EXCEPT !.flusher.pc = "tick"]
    /\ ServerIdle

\* The tick at the head of the loop.
FlusherTick ==
    /\ Stored
    /\ server.flusher.pc = "tick"
    /\ server' = [server EXCEPT !.flusher.pc = "check"]
    /\ ServerIdle

\* if !changed { continue; }
FlusherCheck ==
    /\ Stored
    /\ server.flusher.pc = "check"
    /\ server' = [server EXCEPT
                     !.flusher.pc = IF server.flusher.changed THEN "create"
                                    ELSE "tick"]
    /\ ServerIdle

\* File::create: the file is created or truncated, or the task ends with
\* the error.
FlusherCreate ==
    /\ Stored
    /\ server.flusher.pc = "create"
    /\ \E io \in {"Ok", "IoError"} :
          server' = IF io = "Ok"
                    THEN [server EXCEPT !.file = FileOf({}),
                                        !.flusher.pc = "lock"]
                    ELSE [server EXCEPT !.flusher.pc = "failed"]
    /\ ServerIdle

\* leases.lock()
FlusherLock ==
    /\ Stored
    /\ server.flusher.pc = "lock"
    /\ server.mutex = "free"
    /\ server' = [server EXCEPT !.mutex = "flusher",
                                !.flusher.pc = "snapshot",
                                !.flusher.seen = server.leases]
    /\ ServerIdle

FlusherSnapshot_keeps_guard ==
    /\ Stored
    /\ server.flusher.pc = "snapshot"
    /\ server' = [server EXCEPT
                     !.flusher.output = to_string_pretty(server.leases),
                     !.flusher.pc = "write"]
    /\ ServerIdle

\* to_string_pretty(&*guard), and the guard dropped at the end of the block.
FlusherSnapshot ==
    /\ Stored
    /\ server.flusher.pc = "snapshot"
    /\ server' = [server EXCEPT
                     !.flusher.output = to_string_pretty(server.leases),
                     !.mutex = "free",
                     !.flusher.pc = "write"]
    /\ ServerIdle

\* writer.write and writer.flush: the output is in the file, or the task
\* ends with the error.
FlusherWrite ==
    /\ Stored
    /\ server.flusher.pc = "write"
    /\ \E io \in {"Ok", "IoError"} :
          server' = IF io = "Ok"
                    THEN [server EXCEPT !.file = FileOf(server.flusher.output),
                                        !.written = Some(server.flusher.output),
                                        !.flusher.pc = "tick",
                                        !.unflushed = FALSE]
                    ELSE [server EXCEPT !.flusher.pc = "failed"]
    /\ ServerIdle

StorageNew ==
    /\ server = NoServer
    /\ server' = ServerStorage_new
    /\ ServerIdle

InitStorage ==
    /\ ClientInit
    /\ codec = NoCodec
    /\ hardware_addr = NoHaddr
    /\ server = NoServer

\* The steps of handle_flush up to the test of changed.
FlusherLoop == FlusherFirstTick \/ FlusherTick \/ FlusherCheck

NextStorage ==
    \/ StorageNew
    \/ StoreLease
    \/ RetrieveLease
    \/ CallerLock
    \/ StoreInsert
    \/ RetrieveReturn
    \/ RunFlush
    \/ FlusherFirstTick
    \/ FlusherTick
    \/ FlusherCheck

\* A call that has begun runs to its return (no await while the guard is
\* held).
CallerReturns == CallerLock \/ StoreInsert \/ RetrieveReturn

\* The task tokio::spawn started is run, and the interval ticks.
SpecStorage ==
    /\ InitStorage
    /\ [][NextStorage]_vars
    /\ WF_vars(FlusherLoop)
    /\ WF_vars(CallerReturns)

Started == Stored /\ server.flusher.pc # "none"

\* C27: every successful store sets the dirty flag: after a store, and
\* until a flush completes, the flag of the store and the flag the flusher
\* reads are true.
C27_StoreSetsDirty ==
    (Stored /\ server.unflushed) =>
        /\ server.changed
        /\ Started => server.flusher.changed

Failed == Stored /\ server.flusher.pc = "failed"

InFile(key, lease) ==
    Stored /\ server.file.exists /\ <<key, lease>> \in server.file.content

Holds(key, lease) == Stored /\ get(server.leases, key) = Some(lease)

\* C28: once run_flush has been started, every lease stored is eventually
\* written to the lease file (unless the flush task ended with an I/O
\* error, or the lease was replaced before it was written).
C28_StoredIsEventuallyWritten ==
    \A key \in KeyStrings, lease \in Leases :
        (Started /\ Holds(key, lease))
            ~> (InFile(key, lease) \/ Failed \/ ~Holds(key, lease))

\* C29: retrieve(key) returns the lease most recently stored under the key,
\* and nothing for a key never stored.
C29_RetrieveReturnsStored ==
    (Stored /\ server.caller.op = "retrieve" /\ server.caller.at = "idle") =>
        server.caller.ret
            = get(server.leases, StorageKey_to_string(server.caller.key))

\* handle_flush called with either value of changed: the store as it would
\* be with the flag set, and as ServerStorage::new makes it.
InitFlush ==
    /\ ClientInit
    /\ codec = NoCodec
    /\ hardware_addr = NoHaddr
    /\ \E changed \in BOOLEAN :
          server = [ServerStorage_new EXCEPT !.changed = changed]

NextFlush ==
    \/ StoreLease
    \/ RetrieveLease
    \/ CallerLock
    \/ StoreInsert
    \/ RetrieveReturn
    \/ RunFlush
    \/ FlusherFirstTick
    \/ FlusherTick
    \/ FlusherCheck
    \/ FlusherCreate
    \/ FlusherLock
    \/ FlusherSnapshot
    \/ FlusherWrite

SpecFlush == InitFlush /\ [][NextFlush]_vars

MaxInterfaces == 2

\* NetworkInterface: its name (as characters), its MAC address and the
\* family of the address bound to it, if any.
NetworkInterface(name, mac_addr, addr) ==
    [name |-> name, mac_addr |-> mac_addr, addr |-> addr]

\* str::starts_with
starts_with(s, prefix) ==
    Len(s) >= Len(prefix) /\ SubSeq(s, 1, Len(prefix)) = prefix

is_ipv6(addr) == addr = "V6"

\* Option::filter
filter_is_ipv6(addr) == {a \in addr : is_ipv6(a)}

\* The loop of select_network_interface from interface i on.
RECURSIVE select_from(_, _, _, _)
select_from(interfaces, i, name, fallback) ==
    IF i > Len(interfaces) THEN None
    ELSE LET ifa == interfaces[i]
             next == select_from(interfaces, i + 1, name, fallback)
         IN  IF ifa.name = name THEN Some(ifa)
             ELSE IF ~fallback THEN next
             ELSE IF starts_with(ifa.name, <<"l", "o">>)
                     \/ starts_with(ifa.name, <<"w", "g">>)
             THEN next
             ELSE IF is_none(ifa.mac_addr) THEN next
             ELSE IF is_some(filter_is_ipv6(ifa.addr)) THEN next
             ELSE Some(ifa)

\* select_network_interface, show being what NetworkInterface::show gave.
select_network_interface(show, name, fallback) ==
    IF show.ret # "Ok" THEN [ret |-> "InterfaceError", val |-> None]
    ELSE [ret |-> "Ok", val |-> select_from(show.val, 1, name, fallback)]

ClientBuilder(name, interface_fallback) ==
    [interface |-> name, interface_fallback |-> interface_fallback]

ClientBuilder_default == ClientBuilder(<<"e", "t", "h", "0">>, FALSE)

with_interface_name(self, name) == [self EXCEPT !.interface = name]

with_interface_fallback(self, fallback) ==
    [self EXCEPT !.interface_fallback = fallback]

\* ClientBuilder::build up to the hardware address: what it returns and
\* the interface the client holds.
ClientBuilder_build(self, show) ==
    LET r == select_network_interface(show, self.interface,
                                      self.interface_fallback)
    IN  IF r.ret # "Ok" THEN [ret |-> r.ret, val |-> None]
        ELSE IF is_none(r.val) THEN [ret |-> "NoInterfaceFound", val |-> None]
        ELSE IF is_none(unwrap(r.val).mac_addr)
        THEN [ret |-> "NoHardwareAddressError", val |-> r.val]
        ELSE LET h == HardwareAddr_try_from(unwrap(unwrap(r.val).mac_addr))
             IN  [ret |-> h.ret, val |-> r.val]

InterfaceNames ==
    {<<"e", "t", "h", "0">>, <<"e", "n", "1">>, <<"l", "o">>,
     <<"w", "g", "0">>}

MacAddrs == Opt({ExampleAddr})

Addrs == Opt({"V4", "V6"})

NetworkInterfaces ==
    {NetworkInterface(n, m, a) : n \in InterfaceNames, m \in MacAddrs,
                                 a \in Addrs}

\* What NetworkInterface::show may give: an error, or the list.
Shows ==
    {[ret |-> "Err", val |-> <<>>]}
        \cup {[ret |-> "Ok", val |-> l] :
                 l \in SeqsUpTo(NetworkInterfaces, MaxInterfaces)}

RequestedNames == {<<"e", "t", "h", "0">>, <<"l", "o">>}

\* The builder, the last call made on it and, after build, the list show
\* gave, what build returned and the interface chosen.
Building_client(op, builder, show, ret, val) ==
    [op |-> op, builder |-> builder, show |-> show, ret |-> ret, val |-> val]

NoShow == [ret |-> "Ok", val |-> <<>>]

InterfaceIdle ==
    UNCHANGED <<dhcp_state, client_state, run_result, socket, codec,
                hardware_addr, server, storage, ev, after_init>>

ClientBuilderNew ==
    /\ interface = NoInterface \/ interface.op = "build"
    /\ interface' = Building_client("builder", ClientBuilder_default, NoShow,
                                    "Ok", None)
    /\ InterfaceIdle

WithInterfaceName ==
    /\ interface.op \in {"builder", "with"}
    /\ \E name \in RequestedNames :
          interface' = Building_client("with",
                           with_interface_name(interface.builder, name),
                           NoShow, "Ok", None)
    /\ InterfaceIdle

WithInterfaceFallback ==
    /\ interface.op \in {"builder", "with"}
    /\ \E fallback \in BOOLEAN :
          interface' = Building_client("with",
                           with_interface_fallback(interface.builder, fallback),
                           NoShow, "Ok", None)
    /\ InterfaceIdle

ClientBuilderBuild ==
    /\ interface.op \in {"builder", "with"}
    /\ \E show \in Shows :
          \E r \in {ClientBuilder_build(interface.builder, show)} :
             interface' = Building_client("build", interface.builder, show,
                                          r.ret, r.val)
    /\ InterfaceIdle

InitClientBuilder ==
    /\ dhcp_state = "Init"
    /\ client_state = DefaultClientState
    /\ run_result = "running"
    /\ socket = <<>>
    /\ codec = NoCodec
    /\ hardware_addr = NoHaddr
    /\ server = NoServer
    /\ interface = NoInterface
    /\ storage = NoStorage
    /\ ev = NoEvent
    /\ after_init = "pending"

NextClientBuilder ==
    \/ ClientBuilderNew
    \/ WithInterfaceName
    \/ WithInterfaceFallback
    \/ ClientBuilderBuild

SpecClientBuilder == InitClientBuilder /\ [][NextClientBuilder]_vars

\* The fallback conditions of the specification: not lo* or wg*, a MAC
\* address, an IPv4 address bound.
Eligible(ifa) ==
    /\ ~starts_with(ifa.name, <<"l", "o">>)
    /\ ~starts_with(ifa.name, <<"w", "g">>)
    /\ is_some(ifa.mac_addr)
    /\ ifa.addr = Some("V4")

FirstSuch(l, P(_)) ==
    LET at == {i \in 1..Len(l) : P(l[i])}
    IN  IF at = {} THEN None
        ELSE Some(l[CHOOSE i \in at : \A j \in at : i <= j])

\* C32: over any list of interfaces, an interface with the requested name
\* is chosen if one exists anywhere in the list; if none exists and
\* fallback is enabled the first eligible interface is chosen; otherwise
\* build fails with NoInterfaceFound.
C32_InterfaceSelection ==
    (interface.op = "build" /\ interface.show.ret = "Ok") =>
        LET l        == interface.show.val
            b        == interface.builder
            Named(i) == i.name = b.interface
            named    == FirstSuch(l, Named)
            eligible == FirstSuch(l, Eligible)
        IN  IF is_some(named) THEN interface.val = named
            ELSE IF b.interface_fallback /\ is_some(eligible)
            THEN interface.val = eligible
            ELSE interface.ret = "NoInterfaceFound"


(***************************************************************************)
(* Lease data at the handlers that unwrap it.                              *)
(***************************************************************************)
UnwrapStates == {"Requesting", "Renewing", "Rebinding"} \cup ReplyStates

\* C33: whenever the run loop is about to dispatch a handler that unwraps
\* lease data (Requesting, Renewing, Rebinding and the three handlers that
\* accept an ACK), offered_ip_address and offered_lease_time are both set,
\* whatever OFFER the server sent, and run never aborts in an unwrap.
C33_LeaseDataIsSet ==
    /\ (Running /\ dhcp_state \in UnwrapStates) =>
            /\ is_some(client_state.offered_ip_address)
            /\ is_some(client_state.offered_lease_time)
    /\ run_result # "Panic"


\* C34: whenever the client is in RenewingSent renewal_time_left is set,
\* whenever it is in RebindingSent rebinding_time_left is set, and neither
\* handler ever returns ClientError::Invalid for a missing timer.
C34_RetryTimersAreSet ==
    /\ (Running /\ dhcp_state = "RenewingSent") =>
            is_some(client_state.renewal_time_left)
    /\ (Running /\ dhcp_state = "RebindingSent") =>
            is_some(client_state.rebinding_time_left)
    /\ ~(ev.handler \in {"RenewingSent", "RebindingSent"} /\ run_result = "Invalid")


\* C35: a transition_to call that fails with DhcpStateError leaves the DHCP
\* state and every field of ClientState as they were before the call.
C35_FailedTransitionChangesNothing ==
    [][(ev'.handler = "transition_to" /\ ev'.ret = "DhcpStateError") =>
            /\ dhcp_state' = dhcp_state
            /\ client_state' = client_state]_vars

C35_Witness ==
    /\ ev.handler = "transition_to"
    /\ ev.ret = "DhcpStateError"
    /\ ev.pre_state = "RebindingSent"
    /\ client_state \in LeasedClientStates


\* C36: the xid is changed by the Renewing handler only.  Every other
\* handler leaves transaction_id as it found it, every message a handler
\* sends carries the xid the client holds, and a reply RequestingSent
\* accepts carries it too: the REQUEST of Requesting and the reply accepted
\* in RequestingSent have the xid of the DISCOVER of the same cycle.
C36_XidChangedByRenewingOnly ==
    [][/\ (ev'.handler # "Renewing") =>
              client_state'.transaction_id = client_state.transaction_id
       /\ is_some(ev'.sent) =>
              unwrap(ev'.sent).xid = client_state'.transaction_id
       /\ (/\ ev'.handler = "RequestingSent"
           /\ ev'.kind = "Message"
           /\ dhcp_state' # dhcp_state) =>
              unwrap(ev'.msg).xid = client_state.transaction_id]_vars

\* A cycle run with an xid Renewing chose: the ACK to its REQUEST is accepted.
C36_Witness ==
    /\ ev.handler = "RequestingSent"
    /\ ev.kind = "Message"
    /\ dhcp_state = "Bound"
    /\ client_state.transaction_id = MaxXid
    /\ unwrap(ev.msg).xid = MaxXid


\* C37: a call of Server::run returns AlreadyRunning only while an earlier
\* call is still in its accept loop; after a call that returned an error
\* (a failed bind) the next call binds again.
C37_AlreadyRunningOnlyWhileRunning ==
    [][(/\ server # NoServer
        /\ server.run # "AlreadyRunning"
        /\ server'.run = "AlreadyRunning") => server.run = "listening"]_vars


(***************************************************************************)
(* storage/mod.rs: StorageIdentifier and its text form.  A String is the   *)
(* sequence of its characters.                                             *)
(***************************************************************************)
StorageIdentifier(mac_addr, hostname) ==
    [mac_addr |-> mac_addr, hostname |-> hostname]

StorageIdentifier_new(mac_addr, hostname) ==
    StorageIdentifier(mac_addr, hostname)

\* Display for StorageIdentifier: write!(f, "{}-{}", hostname, mac_addr)
StorageIdentifier_fmt(self) == self.hostname \o <<"-">> \o self.mac_addr

\* str::split_once: the text before and after the first delimiter.
split_once(value, delimiter) ==
    LET at == {i \in 1..Len(value) : value[i] = delimiter} IN
    IF at = {} THEN None
    ELSE LET i == CHOOSE j \in at : \A k \in at : j <= k
         IN  Some(<<SubSeq(value, 1, i - 1), SubSeq(value, i + 1, Len(value))>>)

\* TryFrom<&str> for StorageIdentifier: [ret, val]
StorageIdentifier_try_from(value) ==
    LET tuple == split_once(value, "-") IN
    IF tuple = None
    THEN [ret |-> "StorageIdentifierError", val |-> None]
    ELSE LET mac_addr == unwrap(tuple)[1]
             hostname == unwrap(tuple)[2]
         IN  [ret |-> "Ok", val |-> Some(StorageIdentifier(mac_addr, hostname))]

IdentChars == {"a", "b", "-"}
IdentStrings == SeqsUpTo(IdentChars, MaxStrLen)

\* The identifier last made, its text and what parsing the text gave.
Ident(op, ident, text, ret, parsed) ==
    [op |-> op, ident |-> ident, text |-> text, ret |-> ret, parsed |-> parsed]

StorageIdle ==
    UNCHANGED <<dhcp_state, client_state, run_result, socket, codec,
                hardware_addr, server, interface, ev, after_init>>

StorageIdentifierNew ==
    /\ storage = NoStorage
    /\ \E mac_addr \in IdentStrings, hostname \in IdentStrings :
          storage' = Ident("ident", Some(StorageIdentifier_new(mac_addr, hostname)),
                           <<>>, "Ok", None)
    /\ StorageIdle

\* to_string() of the identifier made.
StorageIdentifierDisplay ==
    /\ storage.op = "ident"
    /\ storage' = Ident("display", storage.ident,
                        StorageIdentifier_fmt(unwrap(storage.ident)), "Ok", None)
    /\ StorageIdle

\* try_from of the text Display produced.
StorageIdentifierTryFrom ==
    /\ storage.op = "display"
    /\ LET r == StorageIdentifier_try_from(storage.text)
       IN  storage' = Ident("try_from", storage.ident, storage.text, r.ret, r.val)
    /\ StorageIdle

\* try_from of any text.
StorageIdentifierParse ==
    /\ storage = NoStorage
    /\ \E value \in IdentStrings :
          LET r == StorageIdentifier_try_from(value)
          IN  storage' = Ident("try_from", None, value, r.ret, r.val)
    /\ StorageIdle

InitStorageIdentifier == InitClientBuilder

NextStorageIdentifier ==
    \/ StorageIdentifierNew
    \/ StorageIdentifierDisplay
    \/ StorageIdentifierTryFrom
    \/ StorageIdentifierParse

SpecStorageIdentifier == InitStorageIdentifier /\ [][NextStorageIdentifier]_vars

NoDash(s) == \A i \in 1..Len(s) : s[i] # "-"

\* C39: for every identifier whose mac_addr and hostname contain no '-',
\* parsing the text Display produced succeeds and yields an identifier
\* with the same mac_addr and the same hostname.
C39_IdentifierRoundTrips ==
    (/\ storage.op = "try_from"
     /\ is_some(storage.ident)
     /\ NoDash(unwrap(storage.ident).mac_addr)
     /\ NoDash(unwrap(storage.ident).hostname)) =>
        /\ storage.ret = "Ok"
        /\ storage.parsed = storage.ident


(***************************************************************************)
(* storage/mod.rs: FileStorage.  The lease map is the set of its           *)
(* <<identifier, lease>> entries.  A line of the lease file is given by    *)
(* the text before its first ' ' (None when the line has no ' ') and by    *)
(* what Lease::try_from makes of the rest (None when it fails).            *)
(***************************************************************************)
MaxLines == 2

StorageLease(ip_addr, mac_addr, hostname, renewal_time, rebinding_time) ==
    [ip_addr |-> ip_addr, mac_addr |-> mac_addr, hostname |-> hostname,
     renewal_time |-> renewal_time, rebinding_time |-> rebinding_time]

FileStorage(leases, pending_changes) ==
    [leases |-> leases, pending_changes |-> pending_changes]

\* FileStorage::new: ..Default::default()
FileStorage_new == FileStorage({}, FALSE)

FileStorage_get(leases, ident) == {e[2] : e \in {x \in leases : x[1] = ident}}

FileStorage_insert(leases, ident, lease) ==
    {e \in leases : e[1] # ident} \cup {<<ident, lease>>}

save_lease(self, ident, lease) ==
    LET existing_lease == FileStorage_get(self.leases, ident) IN
    IF is_some(existing_lease) /\ unwrap(existing_lease) = lease
    THEN self
    ELSE FileStorage(FileStorage_insert(self.leases, ident, lease), TRUE)

get_lease(self, ident) ==
    LET lease == FileStorage_get(self.leases, ident) IN
    IF is_some(lease) THEN [ret |-> "Ok", val |-> lease]
    ELSE [ret |-> "NoSuchLease", val |-> None]

clear(self) == [self EXCEPT !.leases = {}]

Line(ident, lease) == [ident |-> ident, lease |-> lease]

\* `for line in reader.lines()` of load_leases: [ret, leases]
RECURSIVE load_lines(_, _)
load_lines(leases, lines) ==
    IF lines = <<>> THEN [ret |-> "Ok", leases |-> leases]
    ELSE LET line == Head(lines) IN
         IF line.ident = None
         THEN [ret |-> "MalformedLease", leases |-> leases]
         ELSE LET ident == StorageIdentifier_try_from(unwrap(line.ident)) IN
              IF ident.ret # "Ok"
              THEN [ret |-> "LeaseIdentifierError", leases |-> leases]
              ELSE IF line.lease = None
              THEN [ret |-> "LeaseError", leases |-> leases]
              ELSE load_lines(FileStorage_insert(leases, unwrap(ident.val),
                                                 unwrap(line.lease)),
                              Tail(lines))

\* FileStorage::load_leases on the file at file_path (None: no such file):
\* [ret, self, val]
load_leases(self, file) ==
    IF file = None
    THEN [ret |-> "IoError", self |-> self, val |-> 0]
    ELSE LET r == load_lines(self.leases, unwrap(file))
             loaded == [self EXCEPT !.leases = r.leases]
         IN  [ret |-> r.ret, self |-> loaded,
              val |-> IF r.ret = "Ok" THEN Cardinality(r.leases) ELSE 0]

FileIdentifiers ==
    {StorageIdentifier(<<"a">>, <<"h">>), StorageIdentifier(<<"b">>, <<"h">>)}
FileLeases ==
    {StorageLease(ip, <<"a">>, <<"h">>, 1800, 3150) : ip \in IpAddrs}
FileLines ==
    {Line(Some(<<"a", "-", "h">>), Some(l)) : l \in FileLeases}
        \cup {Line(Some(<<"b", "-", "h">>), None), Line(Some(<<"a", "h">>), None),
              Line(None, None)}
Files == Opt(SeqsUpTo(FileLines, MaxLines))

\* The call made last: its name and result, whether save_lease found an
\* equal lease, and the storage as the call found it.
StorageCall(op, ret, equal, before) ==
    [op |-> op, ret |-> ret, equal |-> equal, before |-> before]

\* file: the lease file (no code writes it); loaded: history, the entries
\* the last load_leases read from the file.
Storing(self, file, loaded, call) ==
    [op |-> "file_storage", self |-> self, file |-> file, loaded |-> loaded,
     call |-> call]

IsFileStorage == storage # NoStorage /\ storage.op = "file_storage"

FileStorageNew ==
    /\ storage = NoStorage
    /\ \E file \in Files :
          storage' = Storing(FileStorage_new, file, {},
                             StorageCall("new", "Ok", FALSE, FileStorage_new))
    /\ StorageIdle

SaveLease ==
    /\ IsFileStorage
    /\ \E ident \in FileIdentifiers, lease \in FileLeases :
          storage' = [storage EXCEPT
              !.self = save_lease(@, ident, lease),
              !.call = StorageCall("save_lease", "Ok",
                            FileStorage_get(storage.self.leases, ident) = Some(lease),
                            storage.self)]
    /\ StorageIdle

GetLease ==
    /\ IsFileStorage
    /\ \E ident \in FileIdentifiers :
          storage' = [storage EXCEPT
              !.call = StorageCall("get_lease", get_lease(storage.self, ident).ret,
                                   FALSE, storage.self)]
    /\ StorageIdle

Clear ==
    /\ IsFileStorage
    /\ storage' = [storage EXCEPT
          !.self = clear(@),
          !.call = StorageCall("clear", "Ok", FALSE, storage.self)]
    /\ StorageIdle

LoadLeases ==
    /\ IsFileStorage
    /\ LET r == load_leases(storage.self, storage.file)
       IN  storage' = [storage EXCEPT
              !.self = r.self,
              !.loaded = IF storage.file = None THEN @
                         ELSE load_lines({}, unwrap(storage.file)).leases,
              !.call = StorageCall("load_leases", r.ret, FALSE, storage.self)]
    /\ StorageIdle

InitFileStorage == InitClientBuilder

NextFileStorage ==
    \/ FileStorageNew
    \/ SaveLease
    \/ GetLease
    \/ Clear
    \/ LoadLeases

SpecFileStorage == InitFileStorage /\ [][NextFileStorage]_vars

\* C38: after any sequence of load_leases, save_lease and clear,
\* pending_changes is true whenever the lease map differs from the entries
\* last loaded from the file (no code flushes); and a save_lease of a lease
\* equal to the one stored under the identifier changes neither the map nor
\* pending_changes.
C38_PendingChangesTracksMap ==
    IsFileStorage =>
        /\ storage.self.leases # storage.loaded => storage.self.pending_changes
        /\ (storage.call.op = "save_lease" /\ storage.call.equal) =>
                storage.self = storage.call.before


\* C40: the count Message::write returns equals the number of bytes it
\* appended to the WriteBuffer, every Writeable::write it calls returning
\* exactly what it appended.
C40_WriteCountIsBufferLength ==
    (codec.op = "write" /\ codec.ret = "Ok") => codec.n = Len(codec.bytes)

====
